---- MODULE Spec2Model ----
(***************************************************************************)
(* Model of pg-mcp-server's query safety layer: the statement splitter,    *)
(* the statement classifier, QueryValidator.validate and the query tool    *)
(* handler that calls it before handing the query to the database.         *)
(*                                                                         *)
(* SQL text is a sequence of one-character strings, so that the scanner's  *)
(* character-by-character pass, trim(), toLowerCase() and the regular      *)
(* expressions are modelled by what they do to the text.                   *)
(***************************************************************************)
EXTENDS Integers, Sequences, FiniteSets, TLC

VARIABLES
    query,          \* splitStatements: the text being scanned
    scan,           \* splitStatements: the loop's local variables
    scanPc,         \* splitStatements: "off" | "loop" | "done"
    statement,      \* isWriteStatement: the statement being classified
    verdict,        \* isWriteStatement: "none" | "write" | "read"
    allowWriteOps,  \* QueryValidator.allowWriteOps (from the configuration)
    val,            \* validate: position and effects of the current call
    pc,             \* query tool handler: "off" | "idle" | "executing" | "responded"
    args,           \* query tool handler: the arguments of the current call
    dbQuery,        \* the call of db.executeQuery made by the current tool call
    response,       \* query tool handler: the response of the current call
    calls,          \* validate: the calls of several callers on one validator
    identifier,     \* quoteIdentifier: its argument
    quoted,         \* quoteIdentifier: what the call did
    flag,           \* booleanFromEnv: default, value and parsed result
    env,            \* loadConfig: the numeric settings of process.env
    config,         \* loadConfig / validateConfig: configuration and outcome
    details,        \* getTableDetails: arguments, position, queries executed
    db,             \* DatabaseConnection: isConnected, the pool, calls in flight
    proc,           \* the server process: startup, signals, shutdown, exit
    ssl             \* SSL settings: environment, configuration, client options

QuoteVars == <<identifier, quoted>>
ConfigVars == <<flag, env, config>>
DbVars == <<details, db, proc, ssl>>

vars == <<query, scan, scanPc, statement, verdict,
          allowWriteOps, val, pc, args, dbQuery, response, calls,
          QuoteVars, ConfigVars, DbVars>>

----------------------------------------------------------------------------
(* Bounds of the model.                                                     *)

\* Number of text fragments concatenated into a scanned input.
MaxScanFrags == 4
\* Number of text fragments concatenated into a classified statement.
MaxStmtFrags == 3
\* Number of text fragments concatenated into a query given to the tool.
MaxQueryFrags == 3
\* Number of text fragments concatenated into the s of s + ";" + s.
MaxPlainFrags == 3
\* Number of validate calls made on one validator.
MaxCalls == 3
\* Length of an identifier given to quoteIdentifier.
MaxIdentLen == 4
\* Whitespace characters on each side of a boolean flag's value.
MaxFlagPad == 1
\* Distance from a limit of the numeric settings tried on each side of it.
MaxOver == 1
\* Fragments in an input of the scanner made of block-comment markers.
MaxNestFrags == 5
\* Length of a schema or table name given to getTableDetails.
MaxNameLen == 2
\* Columns the column lookup of getTableDetails returns.
MaxColumns == 2
\* Calls of testConnection and close made on one DatabaseConnection.
MaxDbCalls == 4
\* Signals delivered to the server process.
MaxSignals == 3

----------------------------------------------------------------------------
(* Characters and strings.                                                  *)

\* What query[i] gives past the end of the string.
Undefined == "undefined"

UpperChars == <<"A","B","C","D","E","F","G","H","I","J","K","L","M",
                "N","O","P","Q","R","S","T","U","V","W","X","Y","Z">>
LowerChars == <<"a","b","c","d","e","f","g","h","i","j","k","l","m",
                "n","o","p","q","r","s","t","u","v","w","x","y","z">>
Digits == {"0","1","2","3","4","5","6","7","8","9"}

Range(s) == {s[k] : k \in 1..Len(s)}

\* \s of a regular expression and the characters trim() removes.
IsSpace(c) == c \in {" ", "\n", "\t", "\r"}

\* \w of a regular expression.
IsWord(c) == c \in Range(UpperChars) \cup Range(LowerChars) \cup Digits \cup {"_"}

toLowerChar(c) ==
    IF \E k \in 1..26 : UpperChars[k] = c
    THEN LowerChars[CHOOSE k \in 1..26 : UpperChars[k] = c]
    ELSE c

toLowerCase(s) == [k \in 1..Len(s) |-> toLowerChar(s[k])]

\* s.trim()
trim(s) ==
    IF \A k \in 1..Len(s) : IsSpace(s[k]) THEN <<>>
    ELSE LET a == CHOOSE k \in 1..Len(s) :
                      ~IsSpace(s[k]) /\ \A j \in 1..(k-1) : IsSpace(s[j])
             b == CHOOSE k \in 1..Len(s) :
                      ~IsSpace(s[k]) /\ \A j \in (k+1)..Len(s) : IsSpace(s[j])
         IN  SubSeq(s, a, b)

\* s.includes(w)
includes(s, w) ==
    \E k \in 1..(Len(s) + 1 - Len(w)) : SubSeq(s, k, k + Len(w) - 1) = w

\* s with its first n characters removed.
Drop(s, n) == SubSeq(s, n + 1, Len(s))

\* Length of the longest prefix of s whose characters all satisfy the class.
SpaceRun(s) ==
    IF \A k \in 1..Len(s) : IsSpace(s[k]) THEN Len(s)
    ELSE (CHOOSE k \in 1..Len(s) :
              ~IsSpace(s[k]) /\ \A j \in 1..(k-1) : IsSpace(s[j])) - 1

WordRun(s) ==
    IF \A k \in 1..Len(s) : IsWord(s[k]) THEN Len(s)
    ELSE (CHOOSE k \in 1..Len(s) :
              ~IsWord(s[k]) /\ \A j \in 1..(k-1) : IsWord(s[j])) - 1

\* The concatenation of the strings of a sequence of strings.
RECURSIVE Concat(_)
Concat(ss) == IF ss = <<>> THEN <<>> ELSE Head(ss) \o Concat(Tail(ss))

\* All sequences of at most n elements of S.
RECURSIVE SeqsUpTo(_, _)
SeqsUpTo(S, n) ==
    IF n = 0 THEN {<<>>}
    ELSE LET shorter == SeqsUpTo(S, n - 1)
         IN  shorter \cup {Append(s, x) : s \in shorter, x \in S}

----------------------------------------------------------------------------
(* Keyword sets.                                                            *)

WRITE_OPERATIONS == {
    <<"i","n","s","e","r","t">>,
    <<"u","p","d","a","t","e">>,
    <<"d","e","l","e","t","e">>,
    <<"t","r","u","n","c","a","t","e">>,
    <<"d","r","o","p">>,
    <<"a","l","t","e","r">>,
    <<"c","r","e","a","t","e">>,
    <<"g","r","a","n","t">>,
    <<"r","e","v","o","k","e">>,
    <<"i","m","p","o","r","t">>,
    <<"c","o","p","y">>,
    <<"m","e","r","g","e">>,
    <<"u","p","s","e","r","t">>,
    <<"r","e","p","l","a","c","e">> }

SAFE_KEYWORDS == {
    <<"s","e","l","e","c","t">>,
    <<"w","i","t","h">>,
    <<"s","h","o","w">>,
    <<"e","x","p","l","a","i","n">>,
    <<"v","a","l","u","e","s">>,
    <<"t","a","b","l","e">>,
    <<"d","e","s","c","r","i","b","e">>,
    <<"d","e","s","c">> }

----------------------------------------------------------------------------
(* QueryValidator.splitStatements: one record holds the loop's locals.      *)

\* query[i], 1-based here; Undefined past the end.
CharAt(q, i) == IF i >= 1 /\ i <= Len(q) THEN q[i] ELSE Undefined

ScanInit ==
    [ i |-> 1, current |-> <<>>, statements |-> <<>>,
      inString |-> FALSE, stringDelimiter |-> "",
      inComment |-> FALSE, inBlockComment |-> FALSE ]

\* if (!inString && !inComment && char === "/" && nextChar === "*")
OpensBlockComment(st, char, nextChar) ==
    ~st.inString /\ ~st.inComment /\ char = "/" /\ nextChar = "*"

\* if (inBlockComment && char === "*" && nextChar === "/")
ClosesBlockComment_Nesting(st, char, nextChar) ==
    /\ st.inBlockComment /\ char = "*" /\ nextChar = "/"
    /\ Cardinality({k \in 1..(Len(st.current) - 1) :
            st.current[k] = "/" /\ st.current[k + 1] = "*"}) <= 1
ClosesBlockComment(st, char, nextChar) ==
    st.inBlockComment /\ char = "*" /\ nextChar = "/"

\* if (!inString && !inBlockComment && char === "-" && nextChar === "-")
OpensLineComment_InBlockComment(st, char, nextChar) ==
    ~st.inString /\ char = "-" /\ nextChar = "-"
OpensLineComment(st, char, nextChar) ==
    ~st.inString /\ ~st.inBlockComment /\ char = "-" /\ nextChar = "-"

\* if (inComment && char === "\n")
ClosesLineComment(st, char) ==
    st.inComment /\ char = "\n"

\* if (nextChar !== char): the delimiter closes the string
ClosesStringAt_Always(char, nextChar) == TRUE
ClosesStringAt(char, nextChar) == nextChar # char

\* The "Handle strings" block: opens a string, closes it, or skips an
\* escaped (doubled) delimiter, which copies one quote and advances i.
HandleString_SteppingBack(st, char, nextChar) ==
    IF ~st.inComment /\ ~st.inBlockComment /\ char \in {"'", "\""}
    THEN IF ~st.inString
         THEN [st EXCEPT !.inString = TRUE, !.stringDelimiter = char]
         ELSE IF char = st.stringDelimiter
              THEN IF ClosesStringAt(char, nextChar)
                   THEN [st EXCEPT !.inString = FALSE, !.stringDelimiter = ""]
                   ELSE [st EXCEPT !.current = Append(@, char), !.i = @ - 1]
              ELSE st
    ELSE st
HandleString_InComments(st, char, nextChar) ==
    IF char \in {"'", "\""}
    THEN IF ~st.inString
         THEN [st EXCEPT !.inString = TRUE, !.stringDelimiter = char]
         ELSE IF char = st.stringDelimiter
              THEN IF ClosesStringAt(char, nextChar)
                   THEN [st EXCEPT !.inString = FALSE, !.stringDelimiter = ""]
                   ELSE [st EXCEPT !.current = Append(@, char), !.i = @ + 1]
              ELSE st
    ELSE st
HandleString(st, char, nextChar) ==
    IF ~st.inComment /\ ~st.inBlockComment /\ char \in {"'", "\""}
    THEN IF ~st.inString
         THEN [st EXCEPT !.inString = TRUE, !.stringDelimiter = char]
         ELSE IF char = st.stringDelimiter
              THEN IF ClosesStringAt(char, nextChar)
                   THEN [st EXCEPT !.inString = FALSE, !.stringDelimiter = ""]
                   ELSE [st EXCEPT !.current = Append(@, char), !.i = @ + 1]
              ELSE st
    ELSE st

\* if (!inString && !inComment && !inBlockComment && char === ";")
IsSeparator_IgnoringStrings(st, char) ==
    ~st.inComment /\ ~st.inBlockComment /\ char = ";"
IsSeparator_IgnoringComments(st, char) ==
    ~st.inString /\ char = ";"
IsSeparator(st, char) ==
    ~st.inString /\ ~st.inComment /\ ~st.inBlockComment /\ char = ";"

\* if (current.trim()) statements.push(current.trim());
PushCurrent_Untrimmed(st) ==
    IF trim(st.current) # <<>>
    THEN Append(st.statements, st.current)
    ELSE st.statements
PushCurrent_KeepEmpty(st) == Append(st.statements, trim(st.current))
PushCurrent(st) ==
    IF trim(st.current) # <<>>
    THEN Append(st.statements, trim(st.current))
    ELSE st.statements

\* The "Handle statement separation" block.
HandleSeparator_KeepsSeparator(st, char) ==
    IF IsSeparator(st, char)
    THEN [st EXCEPT !.statements = PushCurrent(st), !.current = <<char>>]
    ELSE [st EXCEPT !.current = Append(@, char)]
HandleSeparator(st, char) ==
    IF IsSeparator(st, char)
    THEN [st EXCEPT !.statements = PushCurrent(st), !.current = <<>>]
    ELSE [st EXCEPT !.current = Append(@, char)]

\* The comment branches of the loop body; each ends in `continue`.
CommentStep_NoComments(q, st) == st
CommentStep(q, st) ==
    LET char == q[st.i]
        nextChar == CharAt(q, st.i + 1)
    IN  IF OpensBlockComment(st, char, nextChar)
        THEN [st EXCEPT !.inBlockComment = TRUE,
                        !.current = Append(@, char), !.i = @ + 1]
        ELSE IF ClosesBlockComment(st, char, nextChar)
        THEN [st EXCEPT !.inBlockComment = FALSE,
                        !.current = @ \o <<char, q[st.i + 1]>>, !.i = @ + 2]
        ELSE IF OpensLineComment(st, char, nextChar)
        THEN [st EXCEPT !.inComment = TRUE,
                        !.current = Append(@, char), !.i = @ + 1]
        ELSE IF ClosesLineComment(st, char)
        THEN [st EXCEPT !.inComment = FALSE,
                        !.current = Append(@, char), !.i = @ + 1]
        ELSE st

\* One iteration of the for loop, the i++ of the loop header included.
ScanStep(q, st) ==
    LET char == q[st.i]
        nextChar == CharAt(q, st.i + 1)
        c == CommentStep(q, st)
    IN  IF c # st THEN c
        ELSE LET s1 == HandleString(st, char, nextChar)
                 s2 == HandleSeparator(s1, char)
             IN  [s2 EXCEPT !.i = @ + 1]

\* After the loop: "Add last statement if any".
ScanFlush_Nothing(st) == st
ScanFlush(st) == [st EXCEPT !.statements = PushCurrent(st)]

RECURSIVE ScanFrom(_, _)
ScanFrom(q, st) ==
    IF st.i > Len(q) THEN ScanFlush(st) ELSE ScanFrom(q, ScanStep(q, st))

splitStatements(q) == ScanFrom(q, ScanInit).statements

----------------------------------------------------------------------------
(* The scanner as a state machine: one action per loop iteration.           *)

ScanFragments == {
    <<"'">>, <<"\"">>, <<";">>, <<"-","-">>, <<"/","*">>, <<"*","/">>,
    <<"/">>, <<"\n">>, <<"x">> }

ScanInputs == {Concat(fs) : fs \in SeqsUpTo(ScanFragments, MaxScanFrags)}

\* The validator and the tool handler at rest.
ValOff ==
    [ pc |-> "off", message |-> "", injectionChecked |-> FALSE,
      warnings |-> <<>>, splitCalled |-> FALSE, statements |-> <<>>,
      classified |-> 0, debugLogged |-> FALSE ]
NoArgs == [hasSql |-> FALSE, sql |-> <<>>]
NoDbQuery == [sent |-> FALSE, sql |-> <<>>]
NoResponse == [sent |-> FALSE, isError |-> FALSE, text |-> ""]


\* The callers of validate, none of them in a call.
Callers == {1, 2}
NoCalls == [c \in Callers |-> [query |-> <<>>, val |-> ValOff, n |-> 0]]

\* quoteIdentifier, booleanFromEnv, loadConfig and validateConfig not called.
QuoteOff == [done |-> FALSE, threw |-> FALSE, text |-> <<>>]
FlagOff == [name |-> "none", set |-> FALSE, value |-> <<>>,
            done |-> FALSE, parsed |-> FALSE]
EnvUnset == [set |-> FALSE, value |-> <<>>]

EnvOff ==
    [PG_MAX_CONNECTIONS |-> EnvUnset, PG_CONNECTION_TIMEOUT |-> EnvUnset,
     PG_STATEMENT_TIMEOUT |-> EnvUnset]

ConfigOff == [pc |-> "off", maxConnections |-> 0, connectionTimeout |-> 0,
              statementTimeout |-> 0]

DetailsOff == [pc |-> "off", schema |-> <<>>, table |-> <<>>,
               looked |-> FALSE, columns |-> 0, executed |-> <<>>,
               error |-> "none", errorClass |-> "none"]

DbStateOff == [isConnected |-> FALSE, poolSize |-> 10, pool |-> "open",
               testing |-> FALSE, closing |-> 0, last |-> "none",
               calls |-> 0]

ProcOff == [pc |-> "off", transport |-> "none", tested |-> "none",
            handlers |-> FALSE, connected |-> FALSE, listening |-> FALSE,
            rejected |-> FALSE, shutdowns |-> 0, closeCalls |-> 0,
            signals |-> <<>>, exitCode |-> 0 - 1]

NoSslConfig == [sslRootCertPath |-> "unset", requireSsl |-> "undefined",
                sslRejectUnauthorized |-> "undefined"]
NoSslOption == [set |-> FALSE, ca |-> FALSE, rejectUnauthorized |-> FALSE]

SslOff == [pc |-> "off", rootCert |-> "unset", requireSsl |-> EnvUnset,
           rejectUnauthorized |-> EnvUnset, config |-> NoSslConfig,
           option |-> NoSslOption]

DbOff ==
    /\ details = DetailsOff /\ db = DbStateOff
    /\ proc = ProcOff /\ ssl = SslOff

SettingsOff ==
    /\ identifier = <<>> /\ quoted = QuoteOff
    /\ flag = FlagOff /\ env = EnvOff /\ config = ConfigOff

LeafOff == SettingsOff /\ DbOff

ServerOff ==
    /\ allowWriteOps = FALSE /\ val = ValOff /\ pc = "off"
    /\ args = NoArgs /\ dbQuery = NoDbQuery /\ response = NoResponse
    /\ calls = NoCalls
    /\ LeafOff

InitSplit ==
    /\ query \in ScanInputs
    /\ scan = ScanInit
    /\ scanPc = "loop"
    /\ statement = <<>> /\ verdict = "none"
    /\ ServerOff

\* for (let i = 0; i < query.length; i++) { ... }
ScanChar ==
    /\ scanPc = "loop"
    /\ scan.i <= Len(query)
    /\ scan' = ScanStep(query, scan)
    /\ UNCHANGED <<query, scanPc, statement, verdict,
                   allowWriteOps, val, pc, args, dbQuery, response, calls,
                   QuoteVars, ConfigVars, DbVars>>

\* if (current.trim()) statements.push(current.trim()); return statements;
ScanReturn ==
    /\ scanPc = "loop"
    /\ scan.i > Len(query)
    /\ scan' = ScanFlush(scan)
    /\ scanPc' = "done"
    /\ UNCHANGED <<query, statement, verdict,
                   allowWriteOps, val, pc, args, dbQuery, response, calls,
                   QuoteVars, ConfigVars, DbVars>>

NextSplit == ScanChar \/ ScanReturn

SpecSplit == InitSplit /\ [][NextSplit]_vars

----------------------------------------------------------------------------
(* Scanner claims (checked under SpecSplit).                                *)

\* A loop iteration is about to process query[scan.i].
AtChar == scanPc = "loop" /\ scan.i <= Len(query)

NoFlag(st) == ~st.inString /\ ~st.inComment /\ ~st.inBlockComment

\* The text the iteration consumed, query[i .. i'-1].
Consumed == SubSeq(query, scan.i, scan'.i - 1)

\* C7: a semicolon met while the scanner is in string state is not a
\* separator: it is copied into the current statement and the string state
\* goes on; no iteration that starts in string state ends a statement.
C7_NoSplitInsideString ==
    [][ (AtChar /\ scan.inString) =>
          /\ scan'.statements = scan.statements
          /\ (query[scan.i] = ";" =>
                 /\ scan'.inString
                 /\ scan'.current = Append(scan.current, ";")) ]_vars

\* A quoted semicolon followed by a top-level one: one statement, the quoted
\* semicolon kept in it.
C7_Witness ==
    /\ scanPc = "done"
    /\ query = <<"'", ";", "'", ";">>
    /\ scan.statements = << <<"'", ";", "'">> >>

\* C8: in string state the open delimiter immediately repeated does not close
\* the string, and both quotes are copied; the string closes exactly at an
\* open delimiter that is not immediately followed by the same character; a
\* semicolon met before that is not a separator.
C8_DoubledDelimiterIsEscape ==
    [][ (AtChar /\ scan.inString) =>
          LET char == query[scan.i]
              nextChar == CharAt(query, scan.i + 1)
          IN  /\ (char = scan.stringDelimiter /\ nextChar = char) =>
                    /\ scan'.inString
                    /\ scan'.stringDelimiter = scan.stringDelimiter
                    /\ scan'.current = scan.current \o <<char, char>>
                    /\ scan'.i = scan.i + 2
              /\ ~scan'.inString <=>
                    (char = scan.stringDelimiter /\ nextChar # char)
              /\ (char = ";" =>
                    scan'.statements = scan.statements /\ scan'.inString) ]_vars

\* An opening quote, a doubled quote and a semicolon: the doubled quote keeps
\* the string open, so the semicolon is inside it and the input is one
\* statement.
C8_Witness ==
    /\ scanPc = "done"
    /\ query = <<"'", "'", "'", ";">>
    /\ scan.statements = << <<"'", "'", "'", ";">> >>

\* C9: a semicolon met inside a line comment (from the two dashes to the
\* first newline) or a block comment (from slash-star to the closing
\* star-slash) is not a separator; the comment text, markers included, is
\* copied into the statement; outside any comment and string a semicolon
\* separates statements.
C9_NoSplitInsideComment ==
    [][ AtChar =>
          LET char == query[scan.i]
              nextChar == CharAt(query, scan.i + 1)
          IN  /\ (scan.inComment \/ scan.inBlockComment) =>
                    /\ scan'.statements = scan.statements
                    /\ scan'.current = scan.current \o Consumed
              /\ scan.inComment => (scan'.inComment <=> char # "\n")
              /\ scan.inBlockComment =>
                    (scan'.inBlockComment <=> ~(char = "*" /\ nextChar = "/"))
              /\ (NoFlag(scan) /\ char = "-" /\ nextChar = "-") =>
                    scan'.inComment /\ scan'.current = Append(scan.current, "-")
              /\ (NoFlag(scan) /\ char = "/" /\ nextChar = "*") =>
                    scan'.inBlockComment /\ scan'.current = Append(scan.current, "/")
              /\ (NoFlag(scan) /\ char = ";") =>
                    /\ scan'.current = <<>>
                    /\ scan'.statements =
                          IF trim(scan.current) = <<>> THEN scan.statements
                          ELSE Append(scan.statements, trim(scan.current)) ]_vars

\* A block comment holding a semicolon, then a separator: the commented
\* semicolon stays in the statement text.
C9_Witness ==
    /\ scanPc = "done"
    /\ query = <<"/", "*", ";", "*", "/", ";">>
    /\ scan.statements = << <<"/", "*", ";", "*", "/">> >>

----------------------------------------------------------------------------
(* QueryValidator.isWriteStatement.                                         *)

\* trimmed.replace(/^\s*\(\s*/g, ""): anchored at the start, so at most one
\* match: optional whitespace, one "(", optional whitespace.
StripLeadingParen(s) ==
    LET a == SpaceRun(s)
    IN  IF CharAt(s, a + 1) = "("
        THEN LET rest == Drop(s, a + 1) IN Drop(rest, SpaceRun(rest))
        ELSE s

\* normalized.match(/^(\w+)/i): the leading run of word characters, <<>> when
\* there is no match.
firstWordMatch(normalized) == SubSeq(normalized, 1, WordRun(normalized))

\* for (const writeOp of WRITE_OPERATIONS) if (lowerStatement.includes(writeOp))
ContainsWriteOp_CaseSensitive(stmt) ==
    \E writeOp \in WRITE_OPERATIONS : includes(stmt, writeOp)
ContainsWriteOp(stmt) ==
    LET lowerStatement == toLowerCase(stmt)
    IN  \E writeOp \in WRITE_OPERATIONS : includes(lowerStatement, writeOp)

\* return !SAFE_KEYWORDS.has(firstWord);
NotSafeKeyword_DenyList(firstWord) == firstWord \in WRITE_OPERATIONS
NotSafeKeyword(firstWord) == firstWord \notin SAFE_KEYWORDS

isWriteStatement(stmt) ==
    LET trimmed == trim(stmt)
        normalized == StripLeadingParen(trimmed)
        firstWord == toLowerCase(firstWordMatch(normalized))
    IN  IF trimmed = <<>> THEN FALSE
        ELSE IF firstWordMatch(normalized) = <<>> THEN FALSE
        ELSE IF firstWord = <<"w","i","t","h">> THEN ContainsWriteOp(stmt)
        ELSE NotSafeKeyword(firstWord)

----------------------------------------------------------------------------
(* The classifier applied to one statement.                                 *)

StmtFragments == {
    <<"s","e","l","e","c","t">>, <<"S","e","L","e","C","t">>,
    <<"w","i","t","h">>, <<"W","I","T","H">>,
    <<"d","e","l","e","t","e">>, <<"D","R","O","P">>,
    <<"f","o","o">>, <<";">>,
    <<" ">>, <<"(">>, <<"'">>, <<"\n">>,
    <<"-","-">>, <<"/","*">>, <<"*","/">> }

StmtInputs == {Concat(fs) : fs \in SeqsUpTo(StmtFragments, MaxStmtFrags)}

InitClassify ==
    /\ statement \in StmtInputs
    /\ verdict = "none"
    /\ query = <<>> /\ scan = ScanInit /\ scanPc = "off"
    /\ ServerOff

Classify ==
    /\ verdict = "none"
    /\ verdict' = IF isWriteStatement(statement) THEN "write" ELSE "read"
    /\ UNCHANGED <<query, scan, scanPc, statement,
                   allowWriteOps, val, pc, args, dbQuery, response, calls,
                   QuoteVars, ConfigVars, DbVars>>

NextClassify == Classify

SpecClassify == InitClassify /\ [][NextClassify]_vars

----------------------------------------------------------------------------
(* Classifier claims (checked under SpecClassify).                          *)

NonEmpty(s) == \E k \in 1..Len(s) : ~IsSpace(s[k])

\* s has w at position k.
HasAt(s, w, k) ==
    k >= 1 /\ k + Len(w) - 1 <= Len(s) /\ SubSeq(s, k, k + Len(w) - 1) = w

\* Position of the first occurrence of w in s at or after from, 0 if none.
FindFrom(s, w, from) ==
    IF \E k \in from..Len(s) : HasAt(s, w, k)
    THEN CHOOSE k \in from..Len(s) :
             HasAt(s, w, k) /\ \A j \in from..(k - 1) : ~HasAt(s, w, j)
    ELSE 0

\* s without its leading whitespace, opening parentheses and comments (a
\* line comment runs to the first newline, a block comment to the first
\* star-slash after its opening marker).
RECURSIVE SkipLeading(_)
SkipLeading(s) ==
    IF s = <<>> THEN s
    ELSE IF IsSpace(s[1]) \/ s[1] = "(" THEN SkipLeading(Tail(s))
    ELSE IF HasAt(s, <<"-", "-">>, 1)
    THEN LET k == FindFrom(s, <<"\n">>, 3)
         IN  IF k = 0 THEN <<>> ELSE SkipLeading(Drop(s, k))
    ELSE IF HasAt(s, <<"/", "*">>, 1)
    THEN LET k == FindFrom(s, <<"*", "/">>, 3)
         IN  IF k = 0 THEN <<>> ELSE SkipLeading(Drop(s, k + 1))
    ELSE s

\* The first keyword of a statement: the first word after any leading
\* whitespace, comments and opening parentheses, lowercased; <<>> if the
\* statement does not start with a word there.
FirstKeyword(s) ==
    LET t == SkipLeading(s) IN toLowerCase(SubSeq(t, 1, WordRun(t)))

\* C3 as claimed: every non-empty statement whose leading keyword is not
\* "with" is classified non-write only when its leading keyword is one of
\* SAFE_KEYWORDS; every other one, any unrecognised leading text included,
\* is classified as a write. (The leading keyword is taken in the most
\* lenient way, after whitespace, parentheses and comments, so that a
\* comment before SELECT does not count as unrecognised leading text.)
C3_FailClosed ==
    (verdict # "none" /\ NonEmpty(statement)
        /\ FirstKeyword(statement) # <<"w","i","t","h">>)
    => (verdict = "read" => FirstKeyword(statement) \in SAFE_KEYWORDS)

\* The leading keyword as the classifier takes it (the `firstWord` its WITH
\* branch tests): the first run of word characters after surrounding
\* whitespace and at most one leading "(" with the whitespace after it,
\* lowercased; <<>> when the statement does not start with a word there.
LeadingKeyword(s) ==
    LET t == Drop(s, SpaceRun(s))
        u == IF CharAt(t, 1) = "(" THEN Drop(t, 1) ELSE t
        v == Drop(u, SpaceRun(u))
    IN  toLowerCase(SubSeq(v, 1, WordRun(v)))

\* Lowercased text of s has w as a substring.
HasSubstringIgnoringCase(s, w) ==
    \E k \in 1..Len(s) :
        /\ k + Len(w) - 1 <= Len(s)
        /\ \A j \in 1..Len(w) : toLowerChar(s[k + j - 1]) = w[j]

ParenPrefixes ==
    { <<"(">>, <<" ">>, <<"(", "(">>, <<"(", " ">>, <<" ", "(">>,
      <<"(", " ", "(">>, <<"\n", "(", "(">> }

\* C11: a prefix made only of open parentheses and whitespace does not change
\* the classification: the prefix followed by the statement is classified as
\* the statement itself was.
C11_LeadingParensIgnored ==
    verdict # "none" =>
        \A p \in ParenPrefixes :
            isWriteStatement(p \o statement) = (verdict = "write")

----------------------------------------------------------------------------
(* QueryValidator.checkForSqlInjection: the suspicious patterns. A pattern  *)
(* is a sequence of atoms: a literal matched ignoring case, \s* or \s+, or  *)
(* .* (any characters but line terminators).                                *)

Lit(w) == [k |-> "lit", s |-> w, min |-> 0]
Ws(n) == [k |-> "ws", s |-> <<>>, min |-> n]
AnyRun == [k |-> "dot", s |-> <<>>, min |-> 0]

suspiciousPatterns == <<
    \* /;\s*drop\s+/i
    << Lit(<<";">>), Ws(0), Lit(<<"d","r","o","p">>), Ws(1) >>,
    \* /;\s*delete\s+from\s+/i
    << Lit(<<";">>), Ws(0), Lit(<<"d","e","l","e","t","e">>), Ws(1),
       Lit(<<"f","r","o","m">>), Ws(1) >>,
    \* /union\s+all\s+select\s+null/i
    << Lit(<<"u","n","i","o","n">>), Ws(1), Lit(<<"a","l","l">>), Ws(1),
       Lit(<<"s","e","l","e","c","t">>), Ws(1), Lit(<<"n","u","l","l">>) >>,
    \* /\/\*.*\*\/\s*drop/i
    << Lit(<<"/","*">>), AnyRun, Lit(<<"*","/">>), Ws(0),
       Lit(<<"d","r","o","p">>) >>,
    \* /--.*drop\s+/i
    << Lit(<<"-","-">>), AnyRun, Lit(<<"d","r","o","p">>), Ws(1) >>,
    \* /xp_cmdshell/i
    << Lit(<<"x","p","_","c","m","d","s","h","e","l","l">>) >>,
    \* /exec\s*\(/i
    << Lit(<<"e","x","e","c">>), Ws(0), Lit(<<"(">>) >> >>

\* The pattern matches s starting at position pos.
RECURSIVE MatchHere(_, _, _)
MatchHere(pat, s, pos) ==
    IF pat = <<>> THEN TRUE
    ELSE LET a == Head(pat)
             left == Len(s) - pos + 1
         IN  IF a.k = "lit"
             THEN /\ Len(a.s) <= left
                  /\ toLowerCase(SubSeq(s, pos, pos + Len(a.s) - 1)) = a.s
                  /\ MatchHere(Tail(pat), s, pos + Len(a.s))
             ELSE \E n \in a.min..left :
                      /\ \A j \in pos..(pos + n - 1) :
                             IF a.k = "ws" THEN IsSpace(s[j])
                             ELSE s[j] \notin {"\n", "\r"}
                      /\ MatchHere(Tail(pat), s, pos + n)

\* pattern.test(query)
test(pat, s) == \E pos \in 1..(Len(s) + 1) : MatchHere(pat, s, pos)

\* The indexes of the patterns that match, in list order: one warning each.
RECURSIVE WarningsFrom(_, _)
WarningsFrom(q, k) ==
    IF k > Len(suspiciousPatterns) THEN <<>>
    ELSE (IF test(suspiciousPatterns[k], q) THEN <<k>> ELSE <<>>)
             \o WarningsFrom(q, k + 1)

checkForSqlInjection(q) == WarningsFrom(q, 1)

----------------------------------------------------------------------------
(* QueryValidator.validate, step by step. The record holds the position of  *)
(* the call and what it has done so far.                                    *)

EmptyMessage == "Query cannot be empty"
WriteDisabledMessage ==
    "Write operations are disabled. Consult a human to enable this."

ValStart == [ValOff EXCEPT !.pc = "start"]

\* if (!query || query.trim().length === 0)
IsBlank_NoTrim(q) == q = <<>>
IsBlank(q) == q = <<>> \/ Len(trim(q)) = 0

\* if (!this.allowWriteOps)
ChecksReadOnly_Always(allow) == TRUE
ChecksReadOnly(allow) == ~allow

\* for (const statement of statements): the loop is over
LoopOver_AfterFirst(v) == v.classified >= 1 \/ v.classified = Len(v.statements)
LoopOver(v) == v.classified = Len(v.statements)

\* validate: the empty check.
CheckEmptyStep_SkipsPatterns(q, v) ==
    IF IsBlank(q)
    THEN [v EXCEPT !.pc = "threw", !.message = EmptyMessage]
    ELSE [v EXCEPT !.pc = "mode"]
CheckEmptyStep(q, v) ==
    IF IsBlank(q)
    THEN [v EXCEPT !.pc = "threw", !.message = EmptyMessage]
    ELSE [v EXCEPT !.pc = "injection"]

\* validate: this.checkForSqlInjection(query), one warning per match.
InjectionStep_Throws(q, v) ==
    IF checkForSqlInjection(q) # <<>>
    THEN [v EXCEPT !.pc = "threw", !.injectionChecked = TRUE,
                   !.warnings = checkForSqlInjection(q),
                   !.message = "Suspicious SQL pattern detected"]
    ELSE [v EXCEPT !.pc = "mode", !.injectionChecked = TRUE]
InjectionStep(q, v) ==
    [v EXCEPT !.pc = "mode", !.injectionChecked = TRUE,
              !.warnings = checkForSqlInjection(q)]

\* validate: the mode test before checkReadOnly.
ModeStep(allow, v) ==
    IF ChecksReadOnly(allow) THEN [v EXCEPT !.pc = "split"]
    ELSE [v EXCEPT !.pc = "debug"]

\* checkReadOnly: const statements = this.splitStatements(query)
SplitStep(q, v) ==
    [v EXCEPT !.pc = "loop", !.splitCalled = TRUE,
              !.statements = splitStatements(q)]

\* checkReadOnly: one iteration of the loop over the statements.
LoopStep_ThrowsAfterLoop(v) ==
    IF LoopOver(v)
    THEN IF \E k \in 1..Len(v.statements) : isWriteStatement(v.statements[k])
         THEN [v EXCEPT !.pc = "threw", !.message = WriteDisabledMessage]
         ELSE [v EXCEPT !.pc = "debug"]
    ELSE [v EXCEPT !.classified = @ + 1]
LoopStep(v) ==
    IF LoopOver(v) THEN [v EXCEPT !.pc = "debug"]
    ELSE IF isWriteStatement(v.statements[v.classified + 1])
    THEN [v EXCEPT !.pc = "threw", !.message = WriteDisabledMessage]
    ELSE [v EXCEPT !.classified = @ + 1]

\* validate: this.logger.debug("Query validated successfully", ...)
DebugStep(v) == [v EXCEPT !.pc = "returned", !.debugLogged = TRUE]

ValFinished(v) == v.pc \in {"threw", "returned"}

ValStep(allow, q, v) ==
    IF v.pc = "start" THEN CheckEmptyStep(q, v)
    ELSE IF v.pc = "injection" THEN InjectionStep(q, v)
    ELSE IF v.pc = "mode" THEN ModeStep(allow, v)
    ELSE IF v.pc = "split" THEN SplitStep(q, v)
    ELSE IF v.pc = "loop" THEN LoopStep(v)
    ELSE IF v.pc = "debug" THEN DebugStep(v)
    ELSE v

RECURSIVE ValRun(_, _, _)
ValRun(allow, q, v) ==
    IF ValFinished(v) THEN v ELSE ValRun(allow, q, ValStep(allow, q, v))

\* The whole synchronous call validator.validate(q).
validate(allow, q) == ValRun(allow, q, ValStart)

----------------------------------------------------------------------------
(* validate as a state machine, called directly (as the unit tests do).     *)

QueryFragments == {
    <<"s","e","l","e","c","t">>, <<"d","e","l","e","t","e">>,
    <<"D","R","O","P">>, <<";">>, <<" ">>, <<"'">>,
    <<"/","*">>, <<"*","/">>, <<"-","-">>, <<"\n">>,
    <<"'", ";", "D","R","O","P", "'">> }

QueryInputs == {Concat(fs) : fs \in SeqsUpTo(QueryFragments, MaxQueryFrags)}

InitValidate ==
    /\ allowWriteOps \in BOOLEAN
    /\ query \in QueryInputs
    /\ val = ValStart
    /\ scan = ScanInit /\ scanPc = "off"
    /\ statement = <<>> /\ verdict = "none"
    /\ pc = "off" /\ args = NoArgs /\ dbQuery = NoDbQuery
    /\ response = NoResponse
    /\ calls = NoCalls
    /\ LeafOff

ValUnchanged ==
    UNCHANGED <<query, scan, scanPc, statement, verdict,
                allowWriteOps, pc, args, dbQuery, response, calls,
                   QuoteVars, ConfigVars, DbVars>>

CheckEmpty ==
    /\ val.pc = "start"
    /\ val' = CheckEmptyStep(query, val)
    /\ ValUnchanged

CheckInjection ==
    /\ val.pc = "injection"
    /\ val' = InjectionStep(query, val)
    /\ ValUnchanged

CheckMode ==
    /\ val.pc = "mode"
    /\ val' = ModeStep(allowWriteOps, val)
    /\ ValUnchanged

ReadOnlySplit ==
    /\ val.pc = "split"
    /\ val' = SplitStep(query, val)
    /\ ValUnchanged

ReadOnlyLoop ==
    /\ val.pc = "loop"
    /\ val' = LoopStep(val)
    /\ ValUnchanged

LogValidated ==
    /\ val.pc = "debug"
    /\ val' = DebugStep(val)
    /\ ValUnchanged

NextValidate ==
    \/ CheckEmpty \/ CheckInjection \/ CheckMode
    \/ ReadOnlySplit \/ ReadOnlyLoop \/ LogValidated

SpecValidate == InitValidate /\ [][NextValidate]_vars

----------------------------------------------------------------------------
(* Validator claims (checked under SpecValidate).                           *)

\* C1: with writes disallowed, validate on a non-blank query raises the
\* write-disabled failure if and only if some statement produced by the
\* splitter is classified as a write; it stops at the first such statement
\* in source order, and an all-read query passes with every statement
\* classified.
C1_RejectsIffSomeWrite ==
    (ValFinished(val) /\ ~allowWriteOps /\ NonEmpty(query)) =>
        LET stmts == splitStatements(query)
            writes == {k \in 1..Len(stmts) : isWriteStatement(stmts[k])}
        IN  /\ (val.pc = "threw") <=> (writes # {})
            /\ (val.pc = "threw") =>
                  /\ val.message = WriteDisabledMessage
                  /\ val.classified + 1 \in writes
                  /\ \A k \in writes : k > val.classified
            /\ (val.pc = "returned") =>
                  val.classified = Len(stmts) /\ val.message = ""

\* A read statement followed by a write statement: rejected at the second.
C1_Witness ==
    /\ ~allowWriteOps
    /\ query = <<"s","e","l","e","c","t", ";", "d","e","l","e","t","e">>
    /\ val.pc = "threw"
    /\ val.classified = 1

\* C5: with writes allowed, validate never splits or classifies, and it
\* succeeds for every query that is not empty or all-whitespace.
C5_WriteModeSkipsClassification ==
    allowWriteOps =>
        /\ ~val.splitCalled /\ val.statements = <<>> /\ val.classified = 0
        /\ (ValFinished(val) /\ NonEmpty(query)) =>
              val.pc = "returned" /\ val.message = ""

\* Two write statements pass in write mode.
C5_Witness ==
    /\ allowWriteOps
    /\ query = <<"d","e","l","e","t","e", ";", "D","R","O","P">>
    /\ val.pc = "returned"

\* C6: in both write modes an empty or all-whitespace query is rejected with
\* the empty-query failure, and nothing else has happened by then: no
\* suspicious-pattern check, no warning, no splitting, no classification.
C6_BlankRejectedFirst ==
    ~NonEmpty(query) =>
        /\ val.pc \in {"start", "threw"}
        /\ ~val.injectionChecked /\ val.warnings = <<>>
        /\ ~val.splitCalled /\ val.classified = 0 /\ ~val.debugLogged
        /\ ValFinished(val) => val.message = EmptyMessage

\* A whitespace-only query is rejected in write mode too.
C6_Witness ==
    /\ allowWriteOps
    /\ query = <<" ", "\n">>
    /\ val.pc = "threw"

\* Comments that hold a write keyword: a block comment, a line comment ended
\* by its newline, and a block comment whose text starts with a slash and
\* holds a semicolon before the keyword.
WriteKeywordComments ==
    { <<"/","*", "D","R","O","P", "*","/">>,
      <<"-","-", "D","R","O","P", "\n">>,
      <<"/","*", "/",";","D","R","O","P", "*","/">> }

\* The positions k of q (k characters before the position) that the scanner
\* starts an iteration at outside every string and comment.
RECURSIVE PlainPositionsFrom(_, _)
PlainPositionsFrom(q, st) ==
    (IF NoFlag(st) THEN {st.i - 1} ELSE {})
    \cup (IF st.i > Len(q) THEN {} ELSE PlainPositionsFrom(q, ScanStep(q, st)))

\* Positions outside strings and comments that do not cut a word in two.
CommentPositions(q) ==
    { k \in PlainPositionsFrom(q, ScanInit) :
        ~(k >= 1 /\ k < Len(q) /\ IsWord(q[k]) /\ IsWord(q[k + 1])) }

InsertAt(q, k, c) == SubSeq(q, 1, k) \o c \o SubSeq(q, k + 1, Len(q))

\* C12: in read-only mode, a query that passed validation still passes when
\* a comment holding a write keyword is added to it at any position outside
\* its string literals (here: outside strings, comments and words).
C12_CommentedKeywordNeverRejects ==
    (~allowWriteOps /\ val.pc = "returned") =>
        \A k \in CommentPositions(query) : \A c \in WriteKeywordComments :
            validate(FALSE, InsertAt(query, k, c)).pc = "returned"

\* The scanner states at the start of each loop iteration over q.
RECURSIVE ScanStatesFrom(_, _)
ScanStatesFrom(q, st) ==
    IF st.i > Len(q) THEN {}
    ELSE {st} \cup ScanStatesFrom(q, ScanStep(q, st))

\* Every semicolon of q is met while the scanner is in string state.
SemicolonsInsideStrings(q) ==
    \A st \in ScanStatesFrom(q, ScanInit) : q[st.i] = ";" => st.inString

SafeLeadingKeywords == SAFE_KEYWORDS \ {<<"w","i","t","h">>}

\* C13: in read-only mode, a query that is one statement whose leading
\* keyword is a safe keyword other than "with" and whose semicolons all lie
\* inside its string literals is not split (the splitter returns it whole,
\* trimmed), is classified non-write whatever follows the keyword, and is
\* accepted by validate.
C13_SafeStatementWithStringsAccepted ==
    (~allowWriteOps /\ LeadingKeyword(query) \in SafeLeadingKeywords
        /\ SemicolonsInsideStrings(query)) =>
        /\ val.pc # "threw"
        /\ val.splitCalled => val.statements = <<trim(query)>>
        /\ val.pc = "returned" => val.classified = 1 /\ val.message = ""
        /\ ~isWriteStatement(query)

\* SELECT followed by a string literal that holds a semicolon and a write
\* keyword is accepted as one statement.
C13_Witness ==
    /\ ~allowWriteOps
    /\ query = <<"s","e","l","e","c","t", "'",";","D","R","O","P","'">>
    /\ val.pc = "returned"
    /\ val.statements = <<query>>

----------------------------------------------------------------------------
(* QueryValidator.splitStatements: what it returns.                         *)

\* No semicolon of q is met outside every string and comment; in particular
\* this holds when every semicolon of q is inside a string.
NoTopLevelSemicolon(q) ==
    \A st \in ScanStatesFrom(q, ScanInit) : q[st.i] = ";" => ~NoFlag(st)

\* C14: for an input with no semicolon outside its strings (nor, more
\* widely, outside its strings and comments), the splitter returns exactly
\* one statement, the trimmed input, or none when the trimmed input is empty.
C14_NoSeparatorOneStatement ==
    (scanPc = "done" /\ NoTopLevelSemicolon(query)) =>
        scan.statements =
            IF NonEmpty(query) THEN <<trim(query)>> ELSE <<>>

\* A quoted semicolon between newlines: one statement, the trimmed input.
C14_Witness ==
    /\ scanPc = "done"
    /\ query = <<"\n", "'", ";", "'">>
    /\ scan.statements = << <<"'", ";", "'">> >>

\* Strings with none of ; ' " -- /* in them.
PlainFragments == { <<"x">>, <<" ">>, <<"\n">>, <<"/">>, <<"*">>, <<"-">> }

PlainInputs ==
    { s \in {Concat(fs) : fs \in SeqsUpTo(PlainFragments, MaxPlainFrags)} :
        \A k \in 1..Len(s) :
            ~HasAt(s, <<"-", "-">>, k) /\ ~HasAt(s, <<"/", "*">>, k) }

\* splitStatements(s + ";" + s)
InitDoubled ==
    /\ \E s \in PlainInputs : query = s \o <<";">> \o s
    /\ scan = ScanInit
    /\ scanPc = "loop"
    /\ statement = <<>> /\ verdict = "none"
    /\ ServerOff

SpecDoubled == InitDoubled /\ [][NextSplit]_vars

\* The s of a query s + ";" + s.
DoubledPart(q) == SubSeq(q, 1, (Len(q) - 1) \div 2)

\* C15 as claimed: for every s with none of ; ' " -- /* in it, splitting
\* s + ";" + s yields exactly two statements, each the trimmed s.
C15_DoubledYieldsTwo ==
    scanPc = "done" =>
        scan.statements =
            <<trim(DoubledPart(query)), trim(DoubledPart(query))>>

\* C15 amended: for every such s that is not blank, splitting s + ";" + s
\* yields exactly two statements, each the trimmed s; for a blank s (empty
\* or all whitespace) it yields no statement.
C15_DoubledNonBlankYieldsTwo ==
    scanPc = "done" =>
        LET s == DoubledPart(query)
        IN  scan.statements =
                IF NonEmpty(s) THEN <<trim(s), trim(s)>> ELSE <<>>

\* s with whitespace around a word: two trimmed copies.
C15_Witness ==
    /\ scanPc = "done"
    /\ query = <<" ", "x", "\n", ";", " ", "x", "\n">>
    /\ scan.statements = << <<"x">>, <<"x">> >>

\* stmts occur in q one after the other, without overlap, from position
\* from on.
RECURSIVE OccurInOrder(_, _, _)
OccurInOrder(stmts, q, from) ==
    \/ stmts = <<>>
    \/ \E k \in from..Len(q) :
          /\ HasAt(q, Head(stmts), k)
          /\ OccurInOrder(Tail(stmts), q, k + Len(Head(stmts)))

\* C16: at every point of the scan and in the result, each statement is
\* non-empty and has no leading or trailing whitespace, and the statements
\* are pieces of the input in source order; so an empty segment (between
\* consecutive semicolons, after a trailing one, whitespace only) is not a
\* statement.
C16_StatementsTrimmedInOrder ==
    scanPc \in {"loop", "done"} =>
        /\ \A k \in 1..Len(scan.statements) :
              LET s == scan.statements[k]
              IN  s # <<>> /\ ~IsSpace(s[1]) /\ ~IsSpace(s[Len(s)])
        /\ OccurInOrder(scan.statements, query, 1)

\* An empty segment between consecutive semicolons, a statement and a
\* trailing semicolon: one statement.
C16_Witness ==
    /\ scanPc = "done"
    /\ query = <<";", ";", "x", ";">>
    /\ scan.statements = << <<"x">> >>

----------------------------------------------------------------------------
(* QueryValidator.validate: the suspicious-pattern check and the failure.   *)

\* validate(q) with the call this.checkForSqlInjection(query) left out.
WithoutPatternCheck(allow, q) ==
    LET v == CheckEmptyStep(q, ValStart)
    IN  ValRun(allow, q,
               IF v.pc = "injection" THEN [v EXCEPT !.pc = "mode"] ELSE v)

\* C17: the suspicious-pattern check never raises, and in either write mode
\* validate ends exactly as it would without the check: same outcome, same
\* message, same statements classified; only the warnings differ.
C17_PatternCheckNeverDecides ==
    /\ val.pc = "threw" =>
          \/ val.message = EmptyMessage /\ ~val.injectionChecked
          \/ val.message = WriteDisabledMessage /\ val.splitCalled
    /\ ValFinished(val) =>
          val = [WithoutPatternCheck(allowWriteOps, query)
                    EXCEPT !.warnings = val.warnings,
                           !.injectionChecked = val.injectionChecked]

\* A read-only query that matches /--.*drop\s+/i passes, with its warning.
C17_Witness ==
    /\ ~allowWriteOps
    /\ query = <<"-","-", "D","R","O","P", " ">>
    /\ val.pc = "returned"
    /\ val.warnings = <<5>>

OneWarningPerMatch(v, q) ==
    /\ \A k \in 1..Len(suspiciousPatterns) :
          test(suspiciousPatterns[k], q)
              <=> \E j \in 1..Len(v.warnings) : v.warnings[j] = k
    /\ \A i, j \in 1..Len(v.warnings) :
          v.warnings[i] = v.warnings[j] => i = j

\* C18: the suspicious-pattern check runs in both write modes and before
\* the read-only check: it has run when the mode test is reached, and by
\* then, as when the write failure is raised or the call returns, exactly
\* one warning per matching pattern has been logged; the success debug
\* trace is logged exactly when validation passes.
C18_WarningsBeforeReadOnlyCheck ==
    /\ val.pc \in {"mode", "split", "loop", "debug", "returned"} =>
          val.injectionChecked
    /\ (val.splitCalled \/ val.message = WriteDisabledMessage) =>
          val.injectionChecked
    /\ (val.pc = "mode" \/ (ValFinished(val) /\ val.injectionChecked)) =>
          OneWarningPerMatch(val, query)
    /\ ~val.injectionChecked => val.warnings = <<>>
    /\ val.debugLogged <=> val.pc = "returned"
    /\ val.pc = "threw" => ~val.debugLogged

\* `;DROP ` matches /;\s*drop\s+/i and is a write: warned, then rejected,
\* no debug trace.
C18_Witness ==
    /\ ~allowWriteOps
    /\ query = <<";", "D","R","O","P", " ">>
    /\ val.pc = "threw" /\ val.message = WriteDisabledMessage
    /\ val.warnings = <<1>>
    /\ ~val.debugLogged

\* C19 as claimed: the failure raised for a rejected multi-statement query
\* identifies the statement that caused it: a rejection caused by a
\* different statement (another position, another text) is a different
\* failure.
C19_FailureIdentifiesStatement ==
    (~allowWriteOps /\ val.pc = "threw" /\ Len(val.statements) >= 2) =>
        \A q \in QueryInputs :
            LET v == validate(FALSE, q)
            IN  (/\ v.pc = "threw" /\ v.splitCalled
                 /\ v.classified # val.classified
                 /\ v.statements[v.classified + 1]
                        # val.statements[val.classified + 1])
                => v.message # val.message

\* C19 amended: a multi-statement query rejected in read-only mode is
\* rejected at the first statement in source order that is classified as a
\* write, the statements after it are not classified, and the failure
\* carries only the fixed write-disabled message: it does not say which
\* statement caused it.
C19_RejectedAtFirstWriteFixedMessage ==
    (~allowWriteOps /\ val.pc = "threw" /\ Len(val.statements) >= 2) =>
        /\ val.message =
              "Write operations are disabled. Consult a human to enable this."
        /\ val.classified < Len(val.statements)
        /\ isWriteStatement(val.statements[val.classified + 1])
        /\ \A k \in 1..val.classified : ~isWriteStatement(val.statements[k])

\* `select;DROP`: rejected at the second statement with the fixed message.
C19_Witness ==
    /\ ~allowWriteOps
    /\ query = <<"s","e","l","e","c","t", ";", "D","R","O","P">>
    /\ val.pc = "threw"
    /\ val.classified = 1
    /\ val.message = WriteDisabledMessage

----------------------------------------------------------------------------
(* Several validate calls on one QueryValidator. validate keeps everything  *)
(* it computes in locals of the call; the instance has the read-only field  *)
(* allowWriteOps and the logger. The calls are interleaved step by step,    *)
(* which covers every order in which callers can run them.                  *)

ReentrantQueries ==
    { <<" ">>,
      <<"s","e","l","e","c","t">>,
      <<"s","e","l","e","c","t", ";", "s","e","l","e","c","t">>,
      <<"d","e","l","e","t","e", ";", "s","e","l","e","c","t">>,
      <<";", "D","R","O","P", " ">>,
      <<"-","-", "D","R","O","P", " ">> }

CallFinished(call) == call.val.pc \in {"off", "threw", "returned"}

\* One step of caller c's call: only that call's locals change.
CallStep_SharedStatements(cs, c, allow) ==
    LET v == ValStep(allow, cs[c].query, cs[c].val)
    IN  [d \in Callers |->
            IF d = c THEN [cs[d] EXCEPT !.val = v]
            ELSE IF v.splitCalled /\ ~cs[c].val.splitCalled
                    /\ ~CallFinished(cs[d])
                 THEN [cs[d] EXCEPT !.val.statements = v.statements]
                 ELSE cs[d]]
CallStep(cs, c, allow) ==
    [cs EXCEPT ![c].val = ValStep(allow, cs[c].query, @)]

InitReentrant ==
    /\ allowWriteOps \in BOOLEAN
    /\ calls = NoCalls
    /\ LeafOff
    /\ query = <<>> /\ val = ValOff /\ pc = "off"
    /\ args = NoArgs /\ dbQuery = NoDbQuery /\ response = NoResponse
    /\ scan = ScanInit /\ scanPc = "off"
    /\ statement = <<>> /\ verdict = "none"

CallsUnchanged ==
    UNCHANGED <<query, scan, scanPc, statement, verdict,
                allowWriteOps, val, pc, args, dbQuery, response,
                QuoteVars, ConfigVars, DbVars>>

\* A caller invokes validator.validate(q).
StartCall(c) ==
    /\ CallFinished(calls[c])
    /\ calls[1].n + calls[2].n < MaxCalls
    /\ \E q \in ReentrantQueries :
          calls' = [calls EXCEPT
                       ![c] = [query |-> q, val |-> ValStart, n |-> @.n + 1]]
    /\ CallsUnchanged

\* The call of caller c goes one step further.
StepCall(c) ==
    /\ ~CallFinished(calls[c])
    /\ calls' = CallStep(calls, c, allowWriteOps)
    /\ CallsUnchanged

NextReentrant == \E c \in Callers : StartCall(c) \/ StepCall(c)

SpecReentrant == InitReentrant /\ [][NextReentrant]_vars

----------------------------------------------------------------------------
(* The query tool handler registered by createPostgresMcpServer.            *)

\* QueryInputSchema.parse(args): sql must be a string of length >= 1.
SchemaAccepts(a) == a.hasSql /\ Len(a.sql) >= 1

\* queryValidator.validate(input.sql) returned instead of throwing, so the
\* handler goes on to db.executeQuery(input.sql).
ValidationPassed_Ignored(v) == TRUE
ValidationPassed(v) == v.pc = "returned"

ErrorResponse_Unsent(text) ==
    [sent |-> FALSE, isError |-> TRUE, text |-> text]
ErrorResponse(text) == [sent |-> TRUE, isError |-> TRUE, text |-> text]
RowsResponse == [sent |-> TRUE, isError |-> FALSE, text |-> "rows"]

ToolArgs == {NoArgs} \cup {[hasSql |-> TRUE, sql |-> q] : q \in QueryInputs}

Init ==
    /\ allowWriteOps \in BOOLEAN
    /\ pc = "idle"
    /\ args = NoArgs /\ val = ValOff /\ query = <<>>
    /\ dbQuery = NoDbQuery /\ response = NoResponse
    /\ scan = ScanInit /\ scanPc = "off"
    /\ statement = <<>> /\ verdict = "none"
    /\ calls = NoCalls
    /\ LeafOff

ScanClassifyUnchanged ==
    UNCHANGED <<scan, scanPc, statement, verdict, calls,
                QuoteVars, ConfigVars, DbVars>>

\* The handler up to its await: parse, validate, call db.executeQuery; a
\* throw of parse or validate goes to the catch block.
CallQueryTool ==
    /\ pc = "idle"
    /\ \E a \in ToolArgs :
          /\ args' = a
          /\ IF ~SchemaAccepts(a)
             THEN /\ response' = ErrorResponse("schema")
                  /\ pc' = "responded"
                  /\ UNCHANGED <<val, query, dbQuery>>
             ELSE LET v == validate(allowWriteOps, a.sql)
                  IN  /\ query' = a.sql
                      /\ val' = v
                      /\ IF ValidationPassed(v)
                         THEN /\ dbQuery' = [sent |-> TRUE, sql |-> a.sql]
                              /\ pc' = "executing"
                              /\ UNCHANGED response
                         ELSE /\ response' = ErrorResponse(v.message)
                              /\ pc' = "responded"
                              /\ UNCHANGED dbQuery
    /\ UNCHANGED allowWriteOps
    /\ ScanClassifyUnchanged

\* await db.executeQuery(input.sql) resolves with the rows.
DbResolves ==
    /\ pc = "executing"
    /\ response' = RowsResponse
    /\ pc' = "responded"
    /\ UNCHANGED <<allowWriteOps, args, val, query, dbQuery>>
    /\ ScanClassifyUnchanged

\* await db.executeQuery(input.sql) rejects with a PostgresError.
DbRejects ==
    /\ pc = "executing"
    /\ response' = ErrorResponse("postgres")
    /\ pc' = "responded"
    /\ UNCHANGED <<allowWriteOps, args, val, query, dbQuery>>
    /\ ScanClassifyUnchanged

\* The response is returned; the server waits for the next call.
HandlerReturns ==
    /\ pc = "responded"
    /\ pc' = "idle"
    /\ args' = NoArgs /\ val' = ValOff /\ query' = <<>>
    /\ dbQuery' = NoDbQuery /\ response' = NoResponse
    /\ UNCHANGED allowWriteOps
    /\ ScanClassifyUnchanged

Next == CallQueryTool \/ DbResolves \/ DbRejects \/ HandlerReturns

Spec == Init /\ [][Next]_vars

----------------------------------------------------------------------------
(* Query tool claims (checked under Spec).                                  *)

\* C2 as claimed: with writes disallowed, no query is handed to query
\* execution that contains a top-level statement whose first keyword (the
\* first word after leading whitespace, comments and opening parentheses)
\* is one of WRITE_OPERATIONS.
C2_NoWriteStatementReachesDb ==
    (~allowWriteOps /\ dbQuery.sent) =>
        LET stmts == splitStatements(dbQuery.sql)
        IN  \A k \in 1..Len(stmts) :
                FirstKeyword(stmts[k]) \notin WRITE_OPERATIONS

\* C4: a query reaches db.executeQuery only after validate returned without
\* error for that very string, it is the string the tool received, and a
\* query whose validation failed is not executed.
C4_ExecutesOnlyValidated ==
    /\ dbQuery.sent =>
          /\ args.hasSql /\ dbQuery.sql = args.sql
          /\ query = dbQuery.sql
          /\ val.pc = "returned"
    /\ (val.pc = "threw") =>
          /\ ~dbQuery.sent
          /\ pc = "responded" /\ response.isError
          /\ response.text = val.message
    /\ (pc = "executing") => dbQuery.sent

\* A rejected query got its error response and never reached the database.
C4_Witness ==
    /\ ~allowWriteOps
    /\ args = [hasSql |-> TRUE, sql |-> <<"D","R","O","P">>]
    /\ pc = "responded"
    /\ response = ErrorResponse(WriteDisabledMessage)
    /\ ~dbQuery.sent

\* C22: the query tool handler never throws or rejects: every call ends in
\* a tool response; a schema-invalid input, a validation failure and a
\* database error each end in a response that carries the error message;
\* after the response the server takes the next request.
C22_HandlerAlwaysResponds ==
    /\ pc \in {"idle", "executing", "responded"}
    /\ pc = "responded" =>
          /\ response.sent
          /\ (args.hasSql /\ ~SchemaAccepts(args)) \/ ~args.hasSql =>
                response = [sent |-> TRUE, isError |-> TRUE, text |-> "schema"]
          /\ val.pc = "threw" =>
                response = [sent |-> TRUE, isError |-> TRUE,
                            text |-> val.message]
          /\ dbQuery.sent =>
                \/ response = RowsResponse
                \/ response = [sent |-> TRUE, isError |-> TRUE,
                               text |-> "postgres"]
          /\ ENABLED HandlerReturns
    /\ pc = "executing" => ENABLED DbResolves /\ ENABLED DbRejects
    /\ pc = "idle" => ~response.sent /\ ENABLED CallQueryTool

\* A database error ended in an error response.
C22_Witness ==
    /\ pc = "responded"
    /\ dbQuery.sent
    /\ response.sent /\ response.isError /\ response.text = "postgres"

----------------------------------------------------------------------------
(* DatabaseConnection.quoteIdentifier.                                      *)

\* Everything of the validator, the scanner and the tool handler at rest.
CoreVars == <<query, scan, scanPc, statement, verdict,
              allowWriteOps, val, pc, args, dbQuery, response, calls>>

CoreOff ==
    /\ query = <<>> /\ scan = ScanInit /\ scanPc = "off"
    /\ statement = <<>> /\ verdict = "none"
    /\ allowWriteOps = FALSE /\ val = ValOff /\ pc = "off"
    /\ args = NoArgs /\ dbQuery = NoDbQuery /\ response = NoResponse
    /\ calls = NoCalls

\* The character "\0".
NullByte == "\\0"

\* identifier.replace(/"/g, '""')
RECURSIVE DoubleQuotes(_)
DoubleQuotes(s) ==
    IF s = <<>> THEN <<>>
    ELSE (IF Head(s) = "\"" THEN <<"\"", "\"">> ELSE <<Head(s)>>)
             \o DoubleQuotes(Tail(s))

\* if (identifier.includes("\0"))
HasNullByte_FirstCharOnly(id) == id # <<>> /\ id[1] = NullByte
HasNullByte(id) == \E k \in 1..Len(id) : id[k] = NullByte

quoteIdentifier_Unescaped(id) ==
    IF HasNullByte(id)
    THEN [done |-> TRUE, threw |-> TRUE, text |-> <<>>]
    ELSE [done |-> TRUE, threw |-> FALSE,
          text |-> <<"\"">> \o id \o <<"\"">>]
quoteIdentifier(id) ==
    IF HasNullByte(id)
    THEN [done |-> TRUE, threw |-> TRUE, text |-> <<>>]
    ELSE [done |-> TRUE, threw |-> FALSE,
          text |-> <<"\"">> \o DoubleQuotes(id) \o <<"\"">>]

IdentChars == {"a", "b", "\"", NullByte}

IdentInputs == UNION {[1..n -> IdentChars] : n \in 0..MaxIdentLen}

InitQuote ==
    /\ identifier \in IdentInputs
    /\ quoted = QuoteOff
    /\ flag = FlagOff /\ env = EnvOff /\ config = ConfigOff
    /\ CoreOff /\ DbOff

QuoteIdentifier ==
    /\ ~quoted.done
    /\ quoted' = quoteIdentifier(identifier)
    /\ UNCHANGED <<identifier, CoreVars, ConfigVars, DbVars>>

NextQuote == QuoteIdentifier

SpecQuote == InitQuote /\ [][NextQuote]_vars

\* Number of double quotes in s[1..k].
RECURSIVE QuotesUpTo(_, _)
QuotesUpTo(s, k) ==
    IF k = 0 THEN 0
    ELSE QuotesUpTo(s, k - 1) + (IF s[k] = "\"" THEN 1 ELSE 0)

\* C21: quoteIdentifier fails if and only if the identifier contains a null
\* byte, returning no text then; for every other identifier it returns a
\* double quote, the identifier with each double quote doubled and every
\* other character unchanged, and a double quote.
C21_QuoteIdentifier ==
    quoted.done =>
        /\ quoted.threw <=> (\E k \in 1..Len(identifier) :
                                 identifier[k] = NullByte)
        /\ quoted.threw => quoted.text = <<>>
        /\ ~quoted.threw =>
              LET t == quoted.text
                  n == Len(identifier)
              IN  /\ Len(t) = n + QuotesUpTo(identifier, n) + 2
                  /\ t[1] = "\"" /\ t[Len(t)] = "\""
                  /\ \A k \in 1..n :
                        LET p == k + 1 + QuotesUpTo(identifier, k - 1)
                        IN  /\ t[p] = identifier[k]
                            /\ identifier[k] = "\"" => t[p + 1] = "\""

\* a"b"  is quoted as  "a""b"""
C21_Witness ==
    /\ identifier = <<"a", "\"", "b", "\"">>
    /\ quoted.done /\ ~quoted.threw
    /\ quoted.text = <<"\"", "a", "\"", "\"", "b", "\"", "\"", "\"">>

----------------------------------------------------------------------------
(* config: booleanFromEnv.                                                  *)

\* ["true", "1", "yes", "on", "y", "t"]
TrueWords ==
    { <<"t","r","u","e">>, <<"1">>, <<"y","e","s">>, <<"o","n">>,
      <<"y">>, <<"t">> }
\* ["false", "0", "no", "off", "", "n", "f"]
FalseWords ==
    { <<"f","a","l","s","e">>, <<"0">>, <<"n","o">>, <<"o","f","f">>,
      <<>>, <<"n">>, <<"f">> }

\* booleanFromEnv(false) for DANGEROUSLY_ALLOW_WRITE_OPS and DEBUG,
\* booleanFromEnv(true) for PG_PREPARE_STATEMENTS.
FlagNames == {"DANGEROUSLY_ALLOW_WRITE_OPS", "DEBUG", "PG_PREPARE_STATEMENTS"}
FlagDefault(name) == name = "PG_PREPARE_STATEMENTS"

\* const s = val.trim().toLowerCase()
Normalise_NoTrim(v) == toLowerCase(v)
Normalise(v) == toLowerCase(trim(v))

\* The preprocess function followed by z.boolean().default(defaultValue);
\* an unset variable is undefined.
booleanFromEnv(defaultValue, set, value) ==
    IF ~set THEN defaultValue
    ELSE LET s == Normalise(value)
         IN  IF s \in TrueWords THEN TRUE
             ELSE IF s \in FalseWords THEN FALSE
             ELSE defaultValue

FlagWords ==
    { <<"t","r","u","e">>, <<"T","R","U","E">>, <<"T","r","u","e">>,
      <<"1">>, <<"y","e","s">>, <<"Y","E","S">>, <<"o","n">>, <<"O","n">>,
      <<"y">>, <<"Y">>, <<"t">>, <<"T">>,
      <<"f","a","l","s","e">>, <<"F","A","L","S","E">>, <<"0">>,
      <<"n","o">>, <<"N","o">>, <<"o","f","f">>, <<"O","F","F">>, <<>>,
      <<"n">>, <<"N">>, <<"f">>, <<"F">>,
      <<"m","a","y","b","e">>, <<"2">>, <<"t","r","u">>, <<"o">>,
      <<"y","e","s","s">>, <<"o"," ","n">> }

FlagPads == {Concat(fs) : fs \in SeqsUpTo({<<" ">>, <<"\t">>}, MaxFlagPad)}

FlagTexts == {a \o w \o b : a \in FlagPads, w \in FlagWords, b \in FlagPads}

InitFlag ==
    /\ \E name \in FlagNames :
          \/ flag = [FlagOff EXCEPT !.name = name]
          \/ \E v \in FlagTexts :
                flag = [FlagOff EXCEPT !.name = name, !.set = TRUE,
                                       !.value = v]
    /\ identifier = <<>> /\ quoted = QuoteOff
    /\ env = EnvOff /\ config = ConfigOff
    /\ CoreOff /\ DbOff

ParseFlag ==
    /\ ~flag.done
    /\ flag' = [flag EXCEPT
                   !.done = TRUE,
                   !.parsed = booleanFromEnv(FlagDefault(flag.name),
                                             flag.set, flag.value)]
    /\ UNCHANGED <<CoreVars, QuoteVars, env, config, DbVars>>

NextFlag == ParseFlag

SpecFlag == InitFlag /\ [][NextFlag]_vars

\* C23 as claimed: after trimming and ignoring case, true, 1, yes, on give
\* true; false, 0, no, off and the empty string give false; every other
\* value, and an unset variable, gives the flag's default.
C23_FlagParsing ==
    flag.done =>
        LET s == toLowerCase(trim(flag.value))
        IN  IF flag.set /\ s \in {<<"t","r","u","e">>, <<"1">>,
                                  <<"y","e","s">>, <<"o","n">>}
            THEN flag.parsed
            ELSE IF flag.set /\ s \in {<<"f","a","l","s","e">>, <<"0">>,
                                       <<"n","o">>, <<"o","f","f">>, <<>>}
            THEN ~flag.parsed
            ELSE flag.parsed = (flag.name = "PG_PREPARE_STATEMENTS")

\* C23 amended: after trimming and ignoring case, true, 1, yes, on, y, t
\* give true; false, 0, no, off, n, f and the empty string give false;
\* every other value, and an unset variable, gives the flag's default
\* (false for DANGEROUSLY_ALLOW_WRITE_OPS and DEBUG, true for
\* PG_PREPARE_STATEMENTS).
C23_FlagParsingWithShortForms ==
    flag.done =>
        LET s == toLowerCase(trim(flag.value))
        IN  IF flag.set /\ s \in {<<"t","r","u","e">>, <<"1">>,
                                  <<"y","e","s">>, <<"o","n">>,
                                  <<"y">>, <<"t">>}
            THEN flag.parsed
            ELSE IF flag.set /\ s \in {<<"f","a","l","s","e">>, <<"0">>,
                                       <<"n","o">>, <<"o","f","f">>, <<>>,
                                       <<"n">>, <<"f">>}
            THEN ~flag.parsed
            ELSE flag.parsed = (flag.name = "PG_PREPARE_STATEMENTS")

\* PG_PREPARE_STATEMENTS set to " N" is false although the default is true.
C23_Witness ==
    /\ flag.done
    /\ flag.name = "PG_PREPARE_STATEMENTS"
    /\ flag.set /\ flag.value = <<" ", "N">>
    /\ ~flag.parsed

----------------------------------------------------------------------------
(* config: intFromEnv, loadConfig, validateConfig. Numbers are integers;    *)
(* the text of an environment variable is converted as Number() and         *)
(* Math.trunc do for decimal notation.                                      *)

DigitValue(c) == CHOOSE d \in 0..9 : <<"0","1","2","3","4","5","6","7","8","9">>[d + 1] = c

IsDigits(s) == \A k \in 1..Len(s) : s[k] \in Digits

RECURSIVE DigitsValue(_)
DigitsValue(s) ==
    IF s = <<>> THEN 0
    ELSE 10 * DigitsValue(SubSeq(s, 1, Len(s) - 1)) + DigitValue(s[Len(s)])

\* Math.trunc(Number(text)) for a decimal text: surrounding whitespace is
\* ignored, the empty text is 0, a sign and a fraction are allowed;
\* anything else is NaN.
TruncNumber(text) ==
    LET s == trim(text)
        signed == s # <<>> /\ s[1] \in {"-", "+"}
        u == IF signed THEN Tail(s) ELSE s
        dot == FindFrom(u, <<".">>, 1)
        whole == IF dot = 0 THEN u ELSE SubSeq(u, 1, dot - 1)
        frac == IF dot = 0 THEN <<>> ELSE SubSeq(u, dot + 1, Len(u))
        ok == /\ IsDigits(whole) /\ IsDigits(frac)
              /\ (s = <<>> \/ whole # <<>> \/ frac # <<>>)
              /\ ~(signed /\ u = <<>>)
        n == DigitsValue(whole)
    IN  IF ~ok THEN [nan |-> TRUE, n |-> 0]
        ELSE [nan |-> FALSE, n |-> IF signed /\ s[1] = "-" THEN 0 - n ELSE n]

\* numberSchema: z.number().int().min(min).max(max); 0 - 1 stands for "no
\* maximum".
WithinLimits_Exclusive(n, min, max) == n > min /\ (max < 0 \/ n < max)
WithinLimits(n, min, max) == n >= min /\ (max < 0 \/ n <= max)

\* intFromEnv(defaultValue, min, max) applied to a variable of process.env.
intFromEnv(defaultValue, min, max, v) ==
    LET t == IF ~v.set THEN [nan |-> TRUE, n |-> 0]
             ELSE TruncNumber(v.value)
        n == IF t.nan THEN defaultValue ELSE t.n
    IN  [ok |-> WithinLimits(n, min, max), n |-> n]

\* ConfigSchema.parse(config) succeeds.
ConfigSchemaAccepts(c) ==
    /\ WithinLimits(c.maxConnections, 1, 100)
    /\ WithinLimits(c.connectionTimeout, 1, 300)
    /\ WithinLimits(c.statementTimeout, 0, 0 - 1)

\* loadConfig(): EnvSchema.parse, the config object, ConfigSchema.parse; a
\* ZodError of either becomes a ConfigurationError.
loadConfig(e) ==
    LET mc == intFromEnv(10, 1, 100, e.PG_MAX_CONNECTIONS)
        ct == intFromEnv(30, 1, 300, e.PG_CONNECTION_TIMEOUT)
        st == intFromEnv(30000, 0, 0 - 1, e.PG_STATEMENT_TIMEOUT)
        c == [pc |-> "loaded", maxConnections |-> mc.n,
              connectionTimeout |-> ct.n, statementTimeout |-> st.n]
    IN  IF mc.ok /\ ct.ok /\ st.ok /\ ConfigSchemaAccepts(c)
        THEN c
        ELSE [ConfigOff EXCEPT !.pc = "loadFailed"]

\* validateConfig(config): returns, or throws ConfigurationError.
validateConfig(c) ==
    [c EXCEPT !.pc = IF ConfigSchemaAccepts(c) THEN "accepted"
                     ELSE "rejected"]

RECURSIVE DecimalText(_)
DecimalText(n) ==
    IF n < 0 THEN <<"-">> \o DecimalText(0 - n)
    ELSE IF n < 10
    THEN << <<"0","1","2","3","4","5","6","7","8","9">>[n + 1] >>
    ELSE DecimalText(n \div 10) \o DecimalText(n % 10)

\* Values at and around a limit.
Around(limit) == {limit - d : d \in 0..MaxOver} \cup
                 {limit + d : d \in 0..MaxOver}

\* Texts of an environment variable for the values vs: plain, with a
\* fraction, with whitespace around; not a number; empty.
NumberTexts(vs) ==
    {DecimalText(n) : n \in vs}
    \cup {DecimalText(n) \o <<".", "9">> : n \in vs}
    \cup {<<" ">> \o DecimalText(n) \o <<"\n">> : n \in vs}
    \cup {<<"a","b","c">>, <<>>, <<"1","2","x">>}

\* A variable of process.env: absent, or one of the texts for vs.
EnvValues(vs) ==
    {EnvUnset} \cup {[set |-> TRUE, value |-> t] : t \in NumberTexts(vs)}

EnvInputs ==
    [PG_MAX_CONNECTIONS : EnvValues(Around(1) \cup Around(100)),
     PG_CONNECTION_TIMEOUT : EnvValues(Around(1) \cup Around(300)),
     PG_STATEMENT_TIMEOUT : EnvValues(Around(0))]

\* Configurations handed to validateConfig directly.
ConfigInputs ==
    [pc : {"given"},
     maxConnections : Around(1) \cup Around(100) \cup {10},
     connectionTimeout : Around(1) \cup Around(300) \cup {30},
     statementTimeout : Around(0) \cup {30000}]

InitConfig ==
    /\ \/ env \in EnvInputs /\ config = ConfigOff
       \/ env = EnvOff /\ config \in ConfigInputs
    /\ identifier = <<>> /\ quoted = QuoteOff /\ flag = FlagOff
    /\ CoreOff /\ DbOff

LoadConfig ==
    /\ config.pc = "off"
    /\ config' = loadConfig(env)
    /\ UNCHANGED <<CoreVars, QuoteVars, flag, env, DbVars>>

ValidateConfig ==
    /\ config.pc \in {"loaded", "given"}
    /\ config' = validateConfig(config)
    /\ UNCHANGED <<CoreVars, QuoteVars, flag, env, DbVars>>

NextConfig == LoadConfig \/ ValidateConfig

SpecConfig == InitConfig /\ [][NextConfig]_vars

\* C24: validateConfig accepts a configuration if and only if
\* maxConnections is within 1..100, connectionTimeout within 1..300 and
\* statementTimeout at least 0, and raises ConfigurationError otherwise;
\* every configuration loadConfig returns is one validateConfig accepts.
C24_ValidateConfigRanges ==
    [][ /\ config'.pc \in {"accepted", "rejected"} =>
              (config'.pc = "accepted" <=>
                  /\ config.maxConnections \in 1..100
                  /\ config.connectionTimeout \in 1..300
                  /\ config.statementTimeout >= 0)
        /\ config'.pc = "loaded" =>
              /\ config'.maxConnections \in 1..100
              /\ config'.connectionTimeout \in 1..300
              /\ config'.statementTimeout >= 0
        /\ (config.pc = "loaded" /\ config'.pc # "loaded") =>
              config'.pc = "accepted"
      ]_vars

\* The boundary values 100, 300 and 0, read from the environment, are
\* loaded and accepted.
C24_Witness ==
    /\ env.PG_MAX_CONNECTIONS = [set |-> TRUE, value |-> <<"1","0","0">>]
    /\ env.PG_CONNECTION_TIMEOUT = [set |-> TRUE, value |-> <<"3","0","0">>]
    /\ env.PG_STATEMENT_TIMEOUT = [set |-> TRUE, value |-> <<"0">>]
    /\ config = [pc |-> "accepted", maxConnections |-> 100,
                 connectionTimeout |-> 300, statementTimeout |-> 0]

----------------------------------------------------------------------------
(* The scanner's states (checked under SpecSplit).                          *)

\* The state the flags stand for; "none" when they stand for no one state.
ScannerState(st) ==
    LET flags == <<st.inString, st.inComment, st.inBlockComment>>
        n == Cardinality({k \in 1..3 : flags[k]})
    IN  IF n > 1 THEN "none"
        ELSE IF st.inComment THEN "in-line-comment"
        ELSE IF st.inBlockComment THEN "in-block-comment"
        ELSE IF ~st.inString THEN
             IF st.stringDelimiter = "" THEN "normal" ELSE "none"
        ELSE IF st.stringDelimiter = "'" THEN "in-single-quote-string"
        ELSE IF st.stringDelimiter = "\"" THEN "in-double-quote-string"
        ELSE "none"

\* C25: at every position of every input the scanner is in exactly one of
\* the states normal, in-single-quote string, in-double-quote string,
\* in-line-comment, in-block-comment: no two of inString, inComment and
\* inBlockComment are true together, and stringDelimiter is non-empty
\* exactly when inString is true.
C25_ExactlyOneScannerState ==
    /\ ~(scan.inString /\ scan.inComment)
    /\ ~(scan.inString /\ scan.inBlockComment)
    /\ ~(scan.inComment /\ scan.inBlockComment)
    /\ scan.stringDelimiter # "" <=> scan.inString
    /\ ScannerState(scan) # "none"

\* Inside a double-quoted string, past a slash-star and two dashes: still
\* the string state alone.
C25_Witness ==
    /\ query = <<"\"", "/", "*", "-", "-">>
    /\ scan.i = 6 /\ scanPc = "loop"
    /\ ScannerState(scan) = "in-double-quote-string"

----------------------------------------------------------------------------
(* Termination of the scanner. The loop is synchronous code that nothing   *)
(* can suspend, so an iteration that can run does run.                      *)

SpecSplitFair == SpecSplit /\ WF_vars(NextSplit)

\* The position of the last semicolon of q met outside every string and
\* comment; 0 when there is none.
LastSeparator(q) ==
    LET seps == {st.i : st \in {t \in ScanStatesFrom(q, ScanInit) :
                                   NoFlag(t) /\ q[t.i] = ";"}}
    IN  IF seps = {} THEN 0 ELSE CHOOSE k \in seps : \A j \in seps : j <= k

\* C26: the splitter terminates and never fails on any input: every loop
\* iteration can run and strictly increases the scan index, the scan ends,
\* and when the input ends inside an unterminated string or block comment
\* everything accumulated since the last separator is flushed, trimmed, as
\* the final statement.
C26_SplitterTerminates ==
    /\ [][ AtChar => scan'.i > scan.i /\ scan'.i <= Len(query) + 1 ]_vars
    /\ [](scanPc = "loop" => ENABLED NextSplit)
    /\ <>(scanPc = "done")
    /\ [][ (scanPc = "loop" /\ scanPc' = "done"
            /\ (scan.inString \/ scan.inBlockComment)) =>
             LET rest == SubSeq(query, LastSeparator(query) + 1, Len(query))
             IN  /\ scan.current = rest
                 /\ scan'.statements =
                       IF NonEmpty(rest)
                       THEN Append(scan.statements, trim(rest))
                       ELSE scan.statements ]_vars

\* A separator, then a string that is never closed: the open string,
\* trimmed, is the final statement.
C26_Witness ==
    /\ scanPc = "done"
    /\ query = <<";", "'", "x", "\n">>
    /\ scan.inString
    /\ scan.statements = << <<"'", "x">> >>

----------------------------------------------------------------------------
(* Block comment markers (checked under SpecSplit).                         *)

\* The iteration at position k of q opened a block comment: it started
\* outside every string and comment at a slash followed by a star.
OpenedBlockCommentAt(q, k) ==
    \E t \in ScanStatesFrom(q, ScanInit) :
        /\ t.i = k
        /\ NoFlag(t)
        /\ q[k] = "/" /\ CharAt(q, k + 1) = "*"

HasPrefix(q, w) == Len(q) >= Len(w) /\ SubSeq(q, 1, Len(w)) = w

\* C27: the two characters of an opening slash-star are consumed as one
\* marker: the block comment is not closed at the star of its own opener,
\* so for an input beginning slash-star-slash the scanner is still in
\* block-comment state after the third character and a semicolon that
\* follows is not a separator.
C27_OpenerConsumedAsOneMarker ==
    [][ AtChar =>
          /\ (scan.inBlockComment /\ ~scan'.inBlockComment) =>
                ~OpenedBlockCommentAt(query, scan.i - 1)
          /\ (HasPrefix(query, <<"/", "*", "/">>) /\ scan'.i = 4) =>
                scan'.inBlockComment
          /\ (HasPrefix(query, <<"/", "*", "/", ";">>) /\ scan.i = 4) =>
                /\ scan'.statements = scan.statements
                /\ scan'.current = Append(scan.current, ";") ]_vars

----------------------------------------------------------------------------
(* Markers met in a state that does not allow them (under SpecSplit).       *)

Quotes == {"'", "\""}

\* The flags of a scanner state.
Flags(st) == <<st.inString, st.stringDelimiter, st.inComment,
               st.inBlockComment>>

\* A string or comment holding a marker of another kind, closed, and then a
\* semicolon.
MarkerThenSemicolon == {
    <<"-", "-", "'", "\n", ";">>,
    <<"/", "*", "\"", "*", "/", ";">>,
    <<"'", "-", "-", "'", ";">>,
    <<"\"", "/", "*", "\"", ";">>,
    <<"-", "-", "/", "*", "\n", ";">>,
    <<"/", "*", "-", "-", "*", "/", ";">>,
    <<"'", "\"", "'", ";">> }

\* C28: markers are recognised only in the state that allows them: a quote
\* met in a line or block comment opens no string; two dashes or a
\* slash-star met in a string open no comment; a slash-star in a line
\* comment and two dashes in a block comment change nothing; in a string a
\* quote other than the open delimiter changes nothing; so a semicolon that
\* follows the closed string or comment separates statements.
C28_MarkersOnlyInAllowingState ==
    [][ AtChar =>
          LET char == query[scan.i]
              nextChar == CharAt(query, scan.i + 1)
              dashes == char = "-" /\ nextChar = "-"
              slashStar == char = "/" /\ nextChar = "*"
              copied == /\ scan'.current = Append(scan.current, char)
                        /\ scan'.i = scan.i + 1
                        /\ scan'.statements = scan.statements
          IN  /\ ((scan.inComment \/ scan.inBlockComment) /\ char \in Quotes)
                    => Flags(scan') = Flags(scan) /\ copied
              /\ (scan.inString /\ (dashes \/ slashStar))
                    => Flags(scan') = Flags(scan) /\ copied
              /\ (scan.inComment /\ slashStar)
                    => Flags(scan') = Flags(scan) /\ copied
              /\ (scan.inBlockComment /\ dashes)
                    => Flags(scan') = Flags(scan) /\ copied
              /\ (scan.inString /\ char \in Quotes
                     /\ char # scan.stringDelimiter)
                    => Flags(scan') = Flags(scan) /\ copied
              /\ (query \in MarkerThenSemicolon /\ scan.i = Len(query))
                    => /\ NoFlag(scan)
                       /\ scan'.current = <<>>
                       /\ scan'.statements =
                             <<trim(SubSeq(query, 1, Len(query) - 1))>> ]_vars

\* A line comment holding a quote, then a semicolon on the next line: the
\* quote opened no string, so the semicolon ends the statement.
C28_Witness ==
    /\ scanPc = "done"
    /\ query = <<"-", "-", "'", "\n", ";">>
    /\ scan.statements = << <<"-", "-", "'">> >>

----------------------------------------------------------------------------
(* The text of the statements (checked under SpecSplit).                    *)

\* The positions of the semicolons of q met outside every string and
\* comment.
SeparatorPositions(q) ==
    {st.i : st \in {t \in ScanStatesFrom(q, ScanInit) :
                       NoFlag(t) /\ q[t.i] = ";"}}

\* q from position `from` on, cut at the positions seps, which are left out.
RECURSIVE SegmentsFrom(_, _, _)
SegmentsFrom(q, from, seps) ==
    LET later == {k \in seps : k >= from}
    IN  IF later = {} THEN <<SubSeq(q, from, Len(q))>>
        ELSE LET k == CHOOSE m \in later : \A j \in later : m <= j
             IN  <<SubSeq(q, from, k - 1)>> \o SegmentsFrom(q, k + 1, seps)

\* The segments trimmed, the blank ones left out.
TrimmedNonBlank(segs) ==
    SelectSeq([k \in 1..Len(segs) |-> trim(segs[k])], LAMBDA t : t # <<>>)

\* C29: the splitter neither drops, duplicates nor reorders text: the
\* statements are the pieces of the input between its top-level separator
\* semicolons, in order, each trimmed and the blank ones left out, so every
\* other character, comment markers and both quotes of a doubled quote
\* included, is in exactly one statement exactly once; while scanning, the
\* buffer is the input since the last separator.
C29_TextCopiedOnceInOrder ==
    LET seps == SeparatorPositions(query)
        before == {k \in seps : k < scan.i}
        last == IF before = {} THEN 0
                ELSE CHOOSE m \in before : \A j \in before : j <= m
    IN  /\ scanPc = "loop" =>
              /\ scan.current = SubSeq(query, last + 1, scan.i - 1)
              /\ scan.statements =
                    TrimmedNonBlank(
                        SubSeq(SegmentsFrom(query, 1, seps), 1,
                               Cardinality(before)))
        /\ scanPc = "done" =>
              scan.statements = TrimmedNonBlank(SegmentsFrom(query, 1, seps))

\* An empty block comment, a separator, a line-comment marker: two
\* statements, the markers in them, the separator in neither.
C29_Witness ==
    /\ scanPc = "done"
    /\ query = <<"/", "*", "*", "/", ";", "-", "-">>
    /\ scan.statements = << <<"/", "*", "*", "/">>, <<"-", "-">> >>

----------------------------------------------------------------------------
(* Block comments within block comments: the scanner over inputs made of    *)
(* block-comment markers.                                                   *)

NestFragments == {
    <<"/", "*">>, <<"*", "/">>, <<";">>, <<"x">>, <<"*">>, <<"/">> }

NestInputs == {Concat(fs) : fs \in SeqsUpTo(NestFragments, MaxNestFrags)}

InitNested ==
    /\ query \in NestInputs
    /\ scan = ScanInit
    /\ scanPc = "loop"
    /\ statement = <<>> /\ verdict = "none"
    /\ ServerOff

SpecNested == InitNested /\ [][NextSplit]_vars

\* A block comment opened by slash-star and a character, holding n more
\* slash-stars, closed by one star-slash and followed by a semicolon.
RECURSIVE Openers(_)
Openers(n) == IF n = 0 THEN <<>> ELSE <<"/", "*">> \o Openers(n - 1)

NestedThenSemicolon ==
    {<<"/", "*", "x">> \o Openers(n) \o <<"*", "/", ";">> :
        n \in 0..(MaxNestFrags - 4)}

\* C30: block comments do not nest in the scanner: in block-comment state a
\* slash-star changes no flag, and the first star-slash returns the scanner
\* to the normal state whatever number of slash-stars came before it; a
\* semicolon after it is a separator.
C30_BlockCommentsDoNotNest ==
    [][ AtChar =>
          LET char == query[scan.i]
              nextChar == CharAt(query, scan.i + 1)
          IN  /\ (scan.inBlockComment /\ char = "/" /\ nextChar = "*") =>
                    /\ Flags(scan') = Flags(scan)
                    /\ scan'.current = Append(scan.current, "/")
                    /\ scan'.statements = scan.statements
              /\ (scan.inBlockComment /\ char = "*" /\ nextChar = "/") =>
                    /\ NoFlag(scan')
                    /\ scan'.i = scan.i + 2
                    /\ scan'.current = scan.current \o <<"*", "/">>
              /\ (scan.inBlockComment /\ ~(char = "*" /\ nextChar = "/")) =>
                    scan'.inBlockComment
              /\ (query \in NestedThenSemicolon /\ scan.i = Len(query)) =>
                    /\ NoFlag(scan)
                    /\ scan'.current = <<>>
                    /\ scan'.statements =
                          <<SubSeq(query, 1, Len(query) - 1)>> ]_vars

\* A comment holding a second slash-star, one star-slash, a semicolon: the
\* comment is closed and the semicolon ends the statement.
C30_Witness ==
    /\ scanPc = "done"
    /\ query = <<"/", "*", "x", "/", "*", "*", "/", ";">>
    /\ NoFlag(scan)
    /\ scan.statements = << <<"/", "*", "x", "/", "*", "*", "/">> >>

----------------------------------------------------------------------------
(* Statements without a leading keyword (checked under SpecValidate).       *)

\* C31: in read-only mode validate accepts a query only if the splitter
\* yields at least one statement for it and each of those statements has a
\* leading keyword (taken in the most lenient way, after whitespace,
\* parentheses and comments); a non-blank query that yields no statement or
\* whose statement has no leading word is not accepted.
C31_AcceptedOnlyWithLeadingKeywords ==
    (~allowWriteOps /\ val.pc = "returned") =>
        LET stmts == splitStatements(query)
        IN  /\ Len(stmts) >= 1
            /\ \A k \in 1..Len(stmts) : FirstKeyword(stmts[k]) # <<>>

----------------------------------------------------------------------------
(* Reading a quoted identifier back (checked under SpecQuote).              *)

\* The text between the outer quotes read as PostgreSQL reads a quoted
\* identifier: a double quote must be followed by a second one and the pair
\* stands for one; a single double quote ends the identifier (ok = FALSE).
RECURSIVE HalvePairs(_)
HalvePairs(s) ==
    IF s = <<>> THEN [ok |-> TRUE, text |-> <<>>]
    ELSE IF s[1] = "\""
    THEN IF Len(s) >= 2 /\ s[2] = "\""
         THEN LET r == HalvePairs(Drop(s, 2))
              IN  [ok |-> r.ok, text |-> <<"\"">> \o r.text]
         ELSE [ok |-> FALSE, text |-> <<>>]
    ELSE LET r == HalvePairs(Tail(s))
         IN  [ok |-> r.ok, text |-> <<s[1]>> \o r.text]

\* C32: for every identifier without a null byte the output of
\* quoteIdentifier is exactly one quoted identifier: it starts and ends with
\* a double quote, every double quote between those two belongs to an
\* adjacent doubled pair, and removing the outer quotes and halving the
\* pairs gives back the identifier.
C32_QuotedIdentifierRoundTrip ==
    (quoted.done /\ ~HasNullByte(identifier)) =>
        LET t == quoted.text
            inner == SubSeq(t, 2, Len(t) - 1)
        IN  /\ ~quoted.threw
            /\ Len(t) >= 2
            /\ t[1] = "\"" /\ t[Len(t)] = "\""
            /\ HalvePairs(inner).ok
            /\ HalvePairs(inner).text = identifier

\* An identifier that tries to end the quoting:  a"bb  becomes  "a""bb".
C32_Witness ==
    /\ identifier = <<"a", "\"", "b", "b">>
    /\ quoted.done /\ ~quoted.threw
    /\ HalvePairs(SubSeq(quoted.text, 2, Len(quoted.text) - 1)) =
           [ok |-> TRUE, text |-> identifier]

----------------------------------------------------------------------------
(* DatabaseConnection.getTableDetails. A query handed to the client is      *)
(* recorded in details.executed: the column lookup with its two parameters, *)
(* the sample-row query with its text.                                      *)

Text_SelectFrom ==
    <<"S","E","L","E","C","T"," ","*"," ","F","R","O","M"," ">>
Text_Limit50 == <<" ","L","I","M","I","T"," ","5","0">>

\* `SELECT * FROM ${quoteIdentifier(schema)}.${quoteIdentifier(table)} LIMIT 50`
SampleQueryText_Unquoted(schema, table) ==
    Text_SelectFrom \o schema \o <<".">> \o table \o Text_Limit50
SampleQueryText(schema, table) ==
    Text_SelectFrom \o quoteIdentifier(schema).text \o <<".">>
        \o quoteIdentifier(table).text \o Text_Limit50

\* The catch block: every error leaves as a PostgresError.
DetailsThrow(d, message) ==
    [d EXCEPT !.pc = "threw", !.error = message,
              !.errorClass = "PostgresError"]

NameChars == {"a", "\"", NullByte}

NameInputs == UNION {[1..n -> NameChars] : n \in 0..MaxNameLen}

InitDetails ==
    /\ \E schema \in NameInputs, table \in NameInputs :
          details = [DetailsOff EXCEPT !.pc = "idle", !.schema = schema,
                                       !.table = table]
    /\ db = DbStateOff /\ proc = ProcOff /\ ssl = SslOff
    /\ SettingsOff /\ CoreOff

DetailsUnchanged ==
    UNCHANGED <<CoreVars, QuoteVars, ConfigVars, db, proc, ssl>>

\* getTableDetails(schema, table) up to its first await.
GetTableDetails ==
    /\ details.pc = "idle"
    /\ details' =
          IF details.schema = <<>> \/ details.table = <<>>
          THEN DetailsThrow(details, "Schema and table name are required")
          ELSE [details EXCEPT
                  !.pc = "columns",
                  !.executed = Append(@, [kind |-> "columns",
                                          schema |-> details.schema,
                                          table |-> details.table,
                                          text |-> <<>>])]
    /\ DetailsUnchanged

\* The column lookup returns n rows; the function runs to its second await
\* or throws.
ColumnsResolve ==
    /\ details.pc = "columns"
    /\ \E n \in 0..MaxColumns :
          LET d == [details EXCEPT !.looked = TRUE, !.columns = n]
          IN  details' =
                IF n = 0
                THEN DetailsThrow(d, "not found or no columns visible")
                ELSE IF quoteIdentifier(d.schema).threw
                        \/ quoteIdentifier(d.table).threw
                THEN DetailsThrow(d, "Identifier cannot contain null bytes")
                ELSE [d EXCEPT
                        !.pc = "sample",
                        !.executed =
                            Append(@, [kind |-> "unsafe",
                                       schema |-> <<>>, table |-> <<>>,
                                       text |-> SampleQueryText(d.schema,
                                                                d.table)])]
    /\ DetailsUnchanged

\* The column lookup fails in the database.
ColumnsReject ==
    /\ details.pc = "columns"
    /\ details' = DetailsThrow(details, "Failed to retrieve details")
    /\ DetailsUnchanged

SampleResolve ==
    /\ details.pc = "sample"
    /\ details' = [details EXCEPT !.pc = "returned"]
    /\ DetailsUnchanged

SampleReject ==
    /\ details.pc = "sample"
    /\ details' = DetailsThrow(details, "Failed to retrieve details")
    /\ DetailsUnchanged

NextDetails ==
    \/ GetTableDetails
    \/ ColumnsResolve
    \/ ColumnsReject
    \/ SampleResolve
    \/ SampleReject

SpecDetails == InitDetails /\ [][NextDetails]_vars

\* The sample-row queries among the queries executed.
SampleQueries ==
    {k \in 1..Len(details.executed) : details.executed[k].kind = "unsafe"}

\* C33: getTableDetails executes the sample-row query only after the column
\* lookup returned at least one column, and only with schema and table text
\* that went through quoteIdentifier; when schema or table is empty, no
\* column is found or an identifier contains a null byte, it fails with a
\* PostgresError and executes no sample-row query.
C33_SampleQueryOnlyAfterColumnsAndQuoted ==
    /\ \A k \in SampleQueries :
          /\ k = 2 /\ details.executed[1].kind = "columns"
          /\ details.looked /\ details.columns >= 1
          /\ LET t == details.executed[k].text
                  qs == quoteIdentifier(details.schema)
                  qt == quoteIdentifier(details.table)
                  inner == SubSeq(t, Len(Text_SelectFrom) + 1,
                                  Len(t) - Len(Text_Limit50))
              IN  /\ ~qs.threw /\ ~qt.threw
                  /\ HasPrefix(t, Text_SelectFrom)
                  /\ SubSeq(t, Len(t) - Len(Text_Limit50) + 1, Len(t))
                        = Text_Limit50
                  /\ inner = qs.text \o <<".">> \o qt.text
    /\ (details.pc \in {"returned", "threw"}
          /\ (\/ details.schema = <<>> \/ details.table = <<>>
              \/ (details.looked /\ details.columns = 0)
              \/ HasNullByte(details.schema)
              \/ HasNullByte(details.table))) =>
             /\ details.pc = "threw"
             /\ details.errorClass = "PostgresError"
             /\ SampleQueries = {}
    /\ details.pc = "threw" => details.errorClass = "PostgresError"

\* The table  a"  of schema  a : the sample-row query names  "a"."a""" .
C33_Witness ==
    /\ details.pc = "returned"
    /\ details.schema = <<"a">> /\ details.table = <<"a", "\"">>
    /\ details.columns = 1
    /\ details.executed[2].text =
          Text_SelectFrom \o <<"\"", "a", "\"", ".",
                               "\"", "a", "\"", "\"", "\"">>
              \o Text_Limit50

----------------------------------------------------------------------------
(* DatabaseConnection: testConnection, close, getStatus. Each of the two    *)
(* async methods is a call step up to its await and a step for each way    *)
(* the awaited promise settles.                                             *)

\* testConnection() up to `await this.sql\`SELECT 1 as test\``.
DbTestStart(d) == [d EXCEPT !.testing = TRUE, !.calls = @ + 1]

\* The test query resolved: this.isConnected = true.
DbTestOk(d) ==
    [d EXCEPT !.testing = FALSE, !.isConnected = TRUE, !.last = "testOk"]

\* The test query rejected: this.isConnected = false; throws PostgresError.
DbTestFail(d) ==
    [d EXCEPT !.testing = FALSE, !.isConnected = FALSE,
              !.last = "testFailed"]

\* close() up to `await this.sql.end({ timeout: 5 })`.
DbCloseStart(d) == [d EXCEPT !.closing = @ + 1, !.calls = @ + 1]

\* sql.end resolved: this.isConnected = false; close() returns.
DbEndOk(d) ==
    [d EXCEPT !.closing = @ - 1, !.pool = "ended", !.isConnected = FALSE,
              !.last = "closed"]

\* sql.end rejected: the catch block logs the error; close() returns.
DbEndFail(d) == [d EXCEPT !.closing = @ - 1, !.last = "closeFailed"]

getStatus(d) == [connected |-> d.isConnected, poolSize |-> d.poolSize]

PoolSizes == {1, 10, 100}

InitDb ==
    /\ \E n \in PoolSizes : db = [DbStateOff EXCEPT !.poolSize = n]
    /\ details = DetailsOff /\ proc = ProcOff /\ ssl = SslOff
    /\ SettingsOff /\ CoreOff

DbUnchanged ==
    UNCHANGED <<CoreVars, QuoteVars, ConfigVars, details, proc, ssl>>

\* The owner of the connection awaits each call before making the next.
DbIdle == ~db.testing /\ db.closing = 0 /\ db.calls < MaxDbCalls

TestConnection ==
    /\ DbIdle
    /\ db' = DbTestStart(db)
    /\ DbUnchanged

\* A query on an ended pool cannot succeed.
TestResolves ==
    /\ db.testing /\ db.pool = "open"
    /\ db' = DbTestOk(db)
    /\ DbUnchanged

TestRejects ==
    /\ db.testing
    /\ db' = DbTestFail(db)
    /\ DbUnchanged

Close ==
    /\ DbIdle
    /\ db' = DbCloseStart(db)
    /\ DbUnchanged

EndResolves ==
    /\ db.closing > 0
    /\ db' = DbEndOk(db)
    /\ DbUnchanged

EndRejects ==
    /\ db.closing > 0
    /\ db' = DbEndFail(db)
    /\ DbUnchanged

NextDb ==
    \/ TestConnection
    \/ TestResolves
    \/ TestRejects
    \/ Close
    \/ EndResolves
    \/ EndRejects

SpecDb == InitDb /\ [][NextDb]_vars

\* C34: once close() has returned, the status getStatus() reports is
\* disconnected, whether or not ending the pool succeeded; the status is
\* connected only between a successful testConnection and the next close
\* or failed testConnection.
C34_DisconnectedAfterClose ==
    /\ db.last \in {"closed", "closeFailed"} => ~getStatus(db).connected
    /\ getStatus(db).connected => db.last = "testOk"

----------------------------------------------------------------------------
(* The server process: startMcpServerStdio and startMcpServerHttp, the     *)
(* shutdown handlers they register, and the exit of the process.           *)
(* proc.pc: "created" | "testing" | "connecting" | "serving" | "exited".   *)

Transports == {"stdio", "http"}
Signals == {"SIGINT", "SIGTERM"}

\* process.exit(code); a start function that rejects ends in the caller's
\* catch, which calls process.exit(1).
Exit(p, code) == [p EXCEPT !.pc = "exited", !.exitCode = code]
StartupRejects(p) == Exit([p EXCEPT !.rejected = TRUE], 1)

\* testConnection resolved; the code up to `await server.connect(transport)`.
\* stdio registers the signal handlers before that await, http after it.
OnTestResolved(p) ==
    [p EXCEPT !.tested = "ok", !.pc = "connecting", !.connected = TRUE,
              !.handlers = (p.transport = "stdio")]

\* testConnection rejected: the catch block logs and rethrows.
OnTestRejected_Continues(p) ==
    [p EXCEPT !.tested = "failed", !.pc = "connecting", !.connected = TRUE,
              !.handlers = (p.transport = "stdio")]
OnTestRejected(p) == StartupRejects([p EXCEPT !.tested = "failed"])

\* server.connect resolved; http then creates the node server, calls
\* listen and registers the signal handlers.
OnConnected(p) ==
    [p EXCEPT !.pc = "serving", !.handlers = TRUE,
              !.listening = (p.transport = "http")]

\* shutdown(signal) up to `await ctx.db.close()`; http first calls
\* nodeServer.close().
ShutdownStart(p, sig) ==
    [p EXCEPT !.signals = Append(@, sig),
              !.listening = FALSE,
              !.shutdowns = @ + 1,
              !.closeCalls = @ + 1]

\* db.close() returned to shutdown: "Shutdown complete", process.exit(0).
ShutdownEnd_ExitsOne(p) == Exit([p EXCEPT !.shutdowns = @ - 1], 1)
ShutdownEnd(p) == Exit([p EXCEPT !.shutdowns = @ - 1], 0)

\* The exit status of a process that a signal ends by default.
SignalExitCode(sig) == IF sig = "SIGINT" THEN 130 ELSE 143

InitServer ==
    /\ \E t \in Transports :
          proc = [ProcOff EXCEPT !.pc = "created", !.transport = t]
    /\ db = DbStateOff
    /\ details = DetailsOff /\ ssl = SslOff
    /\ SettingsOff /\ CoreOff

ServerUnchanged ==
    UNCHANGED <<CoreVars, QuoteVars, ConfigVars, details, ssl>>

\* createPostgresMcpServer(), which throws when the configuration is
\* invalid, then testConnection() up to its await.
StartServer ==
    /\ proc.pc = "created"
    /\ \/ /\ proc' = StartupRejects(proc)
          /\ UNCHANGED db
       \/ /\ proc' = [proc EXCEPT !.pc = "testing"]
          /\ db' = DbTestStart(db)
    /\ ServerUnchanged

StartTestResolves ==
    /\ proc.pc = "testing" /\ db.testing
    /\ db' = DbTestOk(db)
    /\ proc' = OnTestResolved(proc)
    /\ ServerUnchanged

StartTestRejects ==
    /\ proc.pc = "testing" /\ db.testing
    /\ db' = DbTestFail(db)
    /\ proc' = OnTestRejected(proc)
    /\ ServerUnchanged

ConnectResolves ==
    /\ proc.pc = "connecting"
    /\ proc' = OnConnected(proc)
    /\ UNCHANGED db
    /\ ServerUnchanged

ConnectRejects ==
    /\ proc.pc = "connecting"
    /\ proc' = StartupRejects(proc)
    /\ UNCHANGED db
    /\ ServerUnchanged

\* A signal arrives while the handlers are registered: shutdown(signal).
SignalHandled ==
    /\ proc.pc \in {"testing", "connecting", "serving"}
    /\ proc.handlers
    /\ Len(proc.signals) < MaxSignals
    /\ \E sig \in Signals : proc' = ShutdownStart(proc, sig)
    /\ db' = DbCloseStart(db)
    /\ ServerUnchanged

\* A signal arrives before the handlers are registered: the process ends.
SignalDefault ==
    /\ proc.pc \in {"testing", "connecting", "serving"}
    /\ ~proc.handlers
    /\ Len(proc.signals) < MaxSignals
    /\ \E sig \in Signals :
          proc' = Exit([proc EXCEPT !.signals = Append(@, sig)],
                       SignalExitCode(sig))
    /\ UNCHANGED db
    /\ ServerUnchanged

\* sql.end of a close() called by shutdown resolves; close() returns and
\* shutdown runs to process.exit.
ShutdownCloseResolves ==
    /\ proc.pc # "exited" /\ proc.shutdowns > 0 /\ db.closing > 0
    /\ db' = DbEndOk(db)
    /\ proc' = ShutdownEnd(proc)
    /\ ServerUnchanged

\* sql.end rejects: close() logs the error and returns all the same.
ShutdownCloseRejects ==
    /\ proc.pc # "exited" /\ proc.shutdowns > 0 /\ db.closing > 0
    /\ db' = DbEndFail(db)
    /\ proc' = ShutdownEnd(proc)
    /\ ServerUnchanged

NextServer ==
    \/ StartServer
    \/ StartTestResolves
    \/ StartTestRejects
    \/ ConnectResolves
    \/ ConnectRejects
    \/ SignalHandled
    \/ SignalDefault
    \/ ShutdownCloseResolves
    \/ ShutdownCloseRejects

SpecServer == InitServer /\ [][NextServer]_vars

\* sql.end({ timeout: 5 }) settles, so a close() that shutdown awaits
\* returns.
SpecServerFair ==
    SpecServer /\ WF_vars(ShutdownCloseResolves \/ ShutdownCloseRejects)

\* C35: in both transports the server starts accepting protocol requests
\* only after testConnection has succeeded: if the connection test fails,
\* startup rejects, the transport is never connected and the HTTP server
\* never listens.
C35_ServesOnlyAfterConnectionTest ==
    /\ (proc.connected \/ proc.listening \/ proc.pc = "serving") =>
          /\ proc.tested = "ok"
          /\ db.last \in {"testOk", "closed", "closeFailed"}
    /\ (proc.tested = "failed" \/ db.last = "testFailed") =>
          /\ proc.rejected /\ proc.pc = "exited"
          /\ ~proc.connected /\ ~proc.listening /\ ~proc.handlers

\* The HTTP server whose connection test failed: startup rejected, nothing
\* connected or listening.
C35_Witness ==
    /\ proc.transport = "http"
    /\ proc.tested = "failed" /\ proc.rejected
    /\ ~proc.connected /\ ~proc.listening
    /\ ~db.isConnected

\* C36: after a SIGINT or SIGTERM given to the shutdown handler the server
\* eventually exits, and it exits only after db.close() has settled; an
\* error while ending the pool does not propagate out of close(), and the
\* exit code is then still 0.
C36_ShutdownExitsAfterClose ==
    /\ (proc.shutdowns > 0) ~> (proc.pc = "exited")
    /\ [][ /\ (proc.pc = "serving" /\ proc'.pc = "exited") =>
                 /\ proc.shutdowns > 0
                 /\ db'.closing = db.closing - 1
                 /\ db'.last \in {"closed", "closeFailed"}
                 /\ proc'.exitCode = 0
           /\ (proc'.pc = "exited" /\ proc'.exitCode = 0) =>
                 db'.closing = db.closing - 1
           /\ (db'.last = "closeFailed" /\ db.closing > 0) =>
                 /\ proc'.pc = "exited" /\ proc'.exitCode = 0
                 /\ ~proc'.rejected ]_vars

\* SIGTERM to the serving stdio server, the pool failing to end: exit 0.
C36_Witness ==
    /\ proc.transport = "stdio"
    /\ proc.signals = <<"SIGTERM">>
    /\ db.last = "closeFailed"
    /\ proc.pc = "exited" /\ proc.exitCode = 0

\* C37: the database pool is closed at most once per process: of several
\* shutdown signals that arrive before the process exits, only the first
\* invokes db.close().
C37_PoolClosedAtMostOnce ==
    /\ proc.closeCalls <= 1
    /\ db.closing <= 1

----------------------------------------------------------------------------
(* SSL settings: from process.env through loadConfig to the `ssl` option   *)
(* configureSsl gives the database client. ssl.rootCert is "unset",        *)
(* "empty", "readable" (a path readFileSync can read) or "unreadable";     *)
(* an optional boolean of the configuration is "true", "false" or          *)
(* "undefined".                                                            *)

\* env.X ? true : undefined
TrueOrUndefined(b) == IF b THEN "true" ELSE "undefined"

\* the sslRootCertPath, requireSsl and sslRejectUnauthorized entries of the
\* config object loadConfig builds.
loadSslConfig(e) ==
    [sslRootCertPath |-> e.rootCert,
     requireSsl |->
        TrueOrUndefined(booleanFromEnv(FALSE, e.requireSsl.set,
                                       e.requireSsl.value)),
     sslRejectUnauthorized |->
        TrueOrUndefined(booleanFromEnv(TRUE, e.rejectUnauthorized.set,
                                       e.rejectUnauthorized.value))]

\* this.config.sslRejectUnauthorized ?? true
OrTrue(v) == IF v = "undefined" THEN TRUE ELSE v = "true"

\* configureSsl: the ssl option, or a PostgresError when the certificate
\* file cannot be read.
configureSsl(c) ==
    IF c.sslRootCertPath \in {"readable", "unreadable"}
    THEN IF c.sslRootCertPath = "readable"
         THEN [threw |-> FALSE,
               option |-> [set |-> TRUE, ca |-> TRUE,
                           rejectUnauthorized |->
                               OrTrue(c.sslRejectUnauthorized)]]
         ELSE [threw |-> TRUE, option |-> NoSslOption]
    ELSE IF c.requireSsl = "true"
    THEN [threw |-> FALSE,
          option |-> [set |-> TRUE, ca |-> FALSE,
                      rejectUnauthorized |->
                          OrTrue(c.sslRejectUnauthorized)]]
    ELSE [threw |-> FALSE, option |-> NoSslOption]

SslFlagWords ==
    { <<"t","r","u","e">>, <<"T","R","U","E">>, <<"1">>, <<"o","n">>,
      <<"f","a","l","s","e">>, <<"F","a","l","s","e">>, <<"0">>,
      <<"n","o">>, <<>>, <<"m","a","y","b","e">> }

SslFlagValues ==
    {EnvUnset} \cup {[set |-> TRUE, value |-> w] : w \in SslFlagWords}

InitSsl ==
    /\ \E cert \in {"unset", "empty", "readable", "unreadable"},
          req \in SslFlagValues, rej \in SslFlagValues :
          ssl = [SslOff EXCEPT !.pc = "env", !.rootCert = cert,
                               !.requireSsl = req,
                               !.rejectUnauthorized = rej]
    /\ details = DetailsOff /\ db = DbStateOff /\ proc = ProcOff
    /\ SettingsOff /\ CoreOff

SslUnchanged ==
    UNCHANGED <<CoreVars, QuoteVars, ConfigVars, details, db, proc>>

LoadSslConfig ==
    /\ ssl.pc = "env"
    /\ ssl' = [ssl EXCEPT !.pc = "config", !.config = loadSslConfig(ssl)]
    /\ SslUnchanged

\* new DatabaseConnection(config, logger): createConnection, configureSsl.
ConfigureSsl ==
    /\ ssl.pc = "config"
    /\ LET r == configureSsl(ssl.config)
       IN  ssl' = [ssl EXCEPT !.pc = IF r.threw THEN "threw" ELSE "options",
                              !.option = r.option]
    /\ SslUnchanged

NextSsl == LoadSslConfig \/ ConfigureSsl

SpecSsl == InitSsl /\ [][NextSsl]_vars

\* C38: when SSL is in use (PG_SSL_ROOT_CERT set or PG_REQUIRE_SSL true),
\* the rejectUnauthorized option given to the database client equals the
\* parsed value of PG_SSL_REJECT_UNAUTHORIZED: true when the flag is unset
\* or true, false when the flag is set to a false value.
C38_RejectUnauthorizedFollowsFlag ==
    (ssl.pc = "options" /\ ssl.option.set) =>
        ssl.option.rejectUnauthorized =
            booleanFromEnv(TRUE, ssl.rejectUnauthorized.set,
                           ssl.rejectUnauthorized.value)

====
